---- MODULE Spec2Model ----
(***************************************************************************)
(* escaped: the analyzer worker (escaped/workers/analyzer.py), the crawler *)
(* worker (escaped/workers/crawler.py), the submitter                      *)
(* (escaped/submit_jobs.py) and the search worker of the message-broker    *)
(* variant (src/workers/main.py).                                          *)
(*                                                                         *)
(* Analyzer: the admission check against the shared pipeline counter, the  *)
(* bounded-retry clone, scanning, the finally block (clone directory       *)
(* removal, counter decrement, processed-repo marking) and the value the   *)
(* job hands back to the broker.  Crawler: the org-list discovery job with *)
(* its cache check, metadata filter and enqueue, and the search discovery  *)
(* job.  Submitter: the wait loops of the three submit functions and the   *)
(* batches of the org-list one.  Search worker: process_task, from the     *)
(* task it is handed to the follow-up tasks it publishes.                  *)
(*                                                                         *)
(* Three parts of the analyzer are                                         *)
(* modelled on their own: the deleted-file recovery, the derivation of the *)
(* clone path, and the try body of one job (the clone attempts with their  *)
(* waits, then the three scanning sub-pipelines).  Every access to the     *)
(* shared store (the counter key, the queues, the processed cache) and to  *)
(* the shared disk is one step.  The store is taken to answer every        *)
(* command: no redis call raises.                                          *)
(*                                                                         *)
(* Specifications: Spec (analyzer workers on a queue of jobs), SpecCrawl   *)
(* (a discovery run beside one analyzer worker, keys expiring), SpecSubmit *)
(* (a submitter beside one analyzer worker), SpecRestore, SpecNames,       *)
(* SpecLive (analyzer workers under fair scheduling), SpecBody (the try    *)
(* body of one job), SpecKill (Spec with worker processes that can be      *)
(* killed while they hold a slot or while they mark a repo), SpecSearch (a *)
(* search discovery job) and SpecPages (a search request and its pages).   *)
(***************************************************************************)
EXTENDS Integers, Sequences, FiniteSets, TLC

\* ---------------------------------------------------------------- bounds
\* analyzer workers, and jobs on the analyzer queue at the start
NumWorkers == 2
NumJobs == 2
\* config.GLOBAL_MAX_CONCURRENT_PIPELINES is read from the environment; the
\* model runs with a small cap
GLOBAL_MAX_CONCURRENT_PIPELINES == 1

\* org names the submitter puts in one org-list job (20 in submit_jobs.py)
SUBMITTER_BATCH_SIZE == 2
\* org-list jobs on the crawler queue at the start of a discovery run
NumBatches == 1
\* repos one `gh repo list` call returns at most (config.MAX_REPOS_PER_ORG
\* is 200)
MAX_REPOS_PER_ORG == 2
\* the age and size limits of the discovery filter, both enabled; ages are
\* counted in half days, so that a part of a day can be told from a whole one
MAX_REPO_AGE_DAYS == 1
MAX_REPO_SIZE_KB == 1

\* org names in the submitter's org_list_file, and repos in its repo_list_file
NumOrgs == 3
NumDirect == 2

\* one run of the deleted-file recovery: commits, parent commits and paths of
\* the repo, and the lines all its `git diff --name-status` calls print
NumCommits == 2
NumParents == 1
NumPaths == 2
MaxDiffLines == 2

\* characters in an org or repo name handed to the analyzer
MaxNameLen == 2

\* the largest SCAN_COMMIT_DEPTH a deployment is run with (0: unbounded)
MaxScanDepth == 2

\* lines one `gh search repos` call prints at most
MaxSearchLines == 2

\* pages a repository search spans at most, and items the worker is handed
\* in one page of results
MaxTotalPages == 4
MaxItems == 1

\* ------------------------------------------------------ program constants
MAX_CLONE_ATTEMPTS == 3
\* the base of the backoff between clone attempts, in seconds
CLONE_RETRY_DELAY_SECONDS == 60
\* the '+5' of the submitter's admission test for discovery jobs
SUBMITTER_HEADROOM == 5
\* the cache TTL, in units of its own length: positive, so keys get an expiry
PROCESSED_REPOS_CACHE_TTL_SECONDS == 1
\* Worker.process_task: the pages one request may fan out to, and per_page
MAX_MORE_PAGES == 3
PER_PAGE == 100

Workers == 1..NumWorkers
\* at most one distinct repo per job
Repos == 1..NumJobs
NoJob == 0

VARIABLES
    counter,    \* the escaped:active_pipelines key: [present, value]
    queue,      \* the analyzer queue (FIFO of repos)
    delayed,    \* jobs scheduled by enqueue_in, not yet delivered: repo -> count
    dir,        \* repo -> whether {GIT_CLONE_PATH}/{safe_org}/{safe_repo} exists
    procSet,    \* members of PROCESSED_REPOS_SET_KEY
    procKey,    \* repo -> state of escaped:processed:{full_name}
    subPc,      \* the submitter's position in get_active_pipelines_count
    pc,         \* worker -> position in analyze_repository_job
    job,        \* worker -> repo of the job it runs (NoJob when idle)
    attempt,    \* worker -> attempt of clone_repo_with_retries' loop
    localPath,  \* worker -> local_repo_path is set (not None)
    didOk,      \* worker -> did_analysis_finish_ok
    exc,        \* worker -> an exception is in flight
    pend,       \* worker -> value of the return statement executed in the try body
    result,     \* worker -> how the job ended: [kind, value]
    incs,       \* worker -> incr commands this job completed (history)
    decs,       \* worker -> decr commands this job completed (history)
    scanned,    \* worker -> this job ran Scanning to its end (history)
    firstEntry, \* repo -> its cache entry after the first completed marking (history)
    requeued,   \* repo -> a job for it was denied and put itself back (history)
    crashed,    \* jobs killed between their increment and their decrement (history)
    cqueue,     \* the crawler queue (FIFO of discovery jobs)
    crawl,      \* the crawler worker: its position in a discovery job and its locals
    sub,        \* the submitter: its position in a submit_* function and its locals
    restore,    \* one run of restore_deleted_files_in_repo
    names,      \* one derivation of the clone and output paths from (org, repo)
    body,       \* the try body of one job, step by step: clone attempts, Scanning
    mq          \* the search worker of src/workers/main.py and its two broker queues

shared == <<counter, queue, delayed, dir, procSet, procKey, subPc>>
locals == <<pc, job, attempt, localPath, didOk, exc, pend, result>>
history == <<incs, decs, scanned, firstEntry, requeued, crashed>>
ext == <<cqueue, crawl, sub, restore, names, body, mq>>
vars == <<shared, locals, history, ext>>

\* ------------------------------------------------------- the store (redis)
NoCounter == [present |-> FALSE, value |-> 0]

\* redis EXISTS key
KeyExists(c) == c.present

\* redis SET key 0
SetZero(c) == [present |-> TRUE, value |-> 0]

\* int(redis GET key or 0)
GetInt(c) == IF c.present THEN c.value ELSE 0

\* an increment that counts every job twice
IncrTwice(c) == [present |-> TRUE, value |-> GetInt(c) + 2]

\* redis INCR key: a missing key counts as 0
Incr(c) == [present |-> TRUE, value |-> GetInt(c) + 1]

\* redis DECR key: a missing key counts as 0; the value is not clamped
Decr(c) == [present |-> TRUE, value |-> GetInt(c) - 1]

\* redis SADD set member
SAdd(s, r) == s \cup {r}

\* a marking that clears a key it finds already set
SetKeyFlip(k, r) == [k EXCEPT ![r] = IF @ = "absent" THEN "persistent" ELSE "absent"]

\* redis SET key 1: writes the key and drops any expiry it had
SetKey(k, r) == [k EXCEPT ![r] = "persistent"]

\* an expiry command that removes the key at once
ExpireDeletes(k, r) == [k EXCEPT ![r] = "absent"]

\* redis EXPIRE key ttl: only an existing key gets an expiry
Expire(k, r) == [k EXCEPT ![r] = IF @ = "absent" THEN "absent" ELSE "expiring"]

\* what the cache says about one repo: set membership and presence of its key
CacheEntry(s, k, r) == <<r \in s, k[r] # "absent">>

NoEntry == <<>>

\* a fallback that swallows the job instead of putting it back
EnqueueLost(q, r) == q

\* rq Queue.enqueue: the job goes to the end of the queue
Enqueue(q, r) == Append(q, r)

\* a scheduler that forgets the job
EnqueueInDropped(d, r) == d

\* rq Queue.enqueue_in: the job is held by the scheduler until its delay is over
EnqueueIn(d, r) == [d EXCEPT ![r] = @ + 1]

\* ------------------------------------------------- analyze_repository_job
\* an admission test that keeps one slot free
AdmissionDeniedEarly(n) == n >= GLOBAL_MAX_CONCURRENT_PIPELINES - 1

\* the admission test: the job is turned away
AdmissionDenied(n) == n >= GLOBAL_MAX_CONCURRENT_PIPELINES

\* the retry test off by one: one attempt more than MAX_CLONE_ATTEMPTS
MoreAttemptsOffByOne(a) == a <= MAX_CLONE_ATTEMPTS

\* the loop of clone_repo_with_retries goes round again after a failed attempt
MoreAttempts(a) == a < MAX_CLONE_ATTEMPTS

\* the clone-failure return placed outside the try statement: no finally
AfterCloneGiveUpOutsideTry == "done"

\* where control goes when clone_repo_with_retries gave up: the return inside
\* the try body hands over to the finally block
AfterCloneGiveUp == "cleanup"

\* a finally block that goes from the clone removal straight to the marking
AfterCleanupMarks == "sadd"

\* the finally block releases the slot right after the clone removal, before
\* it looks at did_analysis_finish_ok
AfterCleanup == "decr"

\* the finally block removes the clone only through local_repo_path
CleanupRemoves(w) == localPath[w] /\ dir[job[w]]

\* a finally block that marks whatever happened in the try body
MarksProcessedAlways(ok) == TRUE

\* the finally block marks the repo processed
MarksProcessed(ok) == ok

\* the return statements of the finally block: they replace the value pending
\* from the try body and discard an exception in flight
FinallyResult(ok, pending, inflight) ==
    [kind |-> "returned",
     value |-> IF ok THEN "analyzed successfully" ELSE "analysis incomplete/failed"]

NoResult == [kind |-> "none", value |-> "none"]

\* no analyzer worker has a job
WorkersIdle ==
    /\ pc = [w \in Workers |-> "idle"]
    /\ job = [w \in Workers |-> NoJob]
    /\ attempt = [w \in Workers |-> 0]
    /\ localPath = [w \in Workers |-> FALSE]
    /\ didOk = [w \in Workers |-> FALSE]
    /\ exc = [w \in Workers |-> FALSE]
    /\ pend = [w \in Workers |-> "none"]
    /\ result = [w \in Workers |-> NoResult]
    /\ incs = [w \in Workers |-> 0]
    /\ decs = [w \in Workers |-> 0]
    /\ scanned = [w \in Workers |-> FALSE]
    /\ firstEntry = [r \in Repos |-> NoEntry]
    /\ requeued = [r \in Repos |-> FALSE]
    /\ crashed = 0

\* a fresh store and disk: no counter key, nothing scheduled, cloned or marked
StoreFresh ==
    /\ counter = NoCounter
    /\ delayed = [r \in Repos |-> 0]
    /\ dir = [r \in Repos |-> FALSE]
    /\ procSet = {}
    /\ procKey = [r \in Repos |-> "absent"]

\* a process that is not running
Off == [pc |-> "off"]

\* the counter key does not exist yet, NumJobs jobs are queued (several may
\* name the same repo; repos are numbered in order of first appearance),
\* nothing is cloned or marked, every worker is idle; no crawler worker runs,
\* and the submitter is in its wait loop
Init ==
    /\ StoreFresh
    /\ queue \in [1..NumJobs -> Repos]
    /\ \A i \in 1..NumJobs : \A r \in 2..queue[i] : \E j \in 1..(i - 1) : queue[j] = r - 1
    /\ subPc = "exists"
    /\ WorkersIdle
    /\ cqueue = <<>>
    /\ crawl = Off
    /\ sub = Off
    /\ restore = Off
    /\ names = Off
    /\ body = Off
    /\ mq = Off

\* the worker takes the next job off the analyzer queue; idle workers are
\* alike, so the first idle one takes it
Dequeue(w) ==
    /\ pc[w] = "idle"
    /\ \A v \in 1..(w - 1) : pc[v] # "idle"
    /\ queue # <<>>
    /\ job' = [job EXCEPT ![w] = Head(queue)]
    /\ queue' = Tail(queue)
    /\ pc' = [pc EXCEPT ![w] = "exists"]
    /\ UNCHANGED <<counter, delayed, dir, procSet, procKey, subPc>>
    /\ UNCHANGED <<attempt, localPath, didOk, exc, pend, result>>
    /\ UNCHANGED history
    /\ UNCHANGED ext

\* if not redis.exists(ACTIVE_PIPELINES_COUNTER_KEY)
CheckExists(w) ==
    /\ pc[w] = "exists"
    /\ pc' = [pc EXCEPT ![w] = IF KeyExists(counter) THEN "get" ELSE "init"]
    /\ UNCHANGED <<shared, job, attempt, localPath, didOk, exc, pend, result, history>>
    /\ UNCHANGED ext

\* redis.set(ACTIVE_PIPELINES_COUNTER_KEY, 0)
InitCounter(w) ==
    /\ pc[w] = "init"
    /\ counter' = SetZero(counter)
    /\ pc' = [pc EXCEPT ![w] = "get"]
    /\ UNCHANGED <<queue, delayed, dir, procSet, procKey, subPc>>
    /\ UNCHANGED <<job, attempt, localPath, didOk, exc, pend, result, history>>
    /\ UNCHANGED ext

\* num_active_pipelines = int(redis.get(...) or 0), then the comparison
ReadCounter(w) ==
    /\ pc[w] = "get"
    /\ pc' = [pc EXCEPT ![w] = IF AdmissionDenied(GetInt(counter)) THEN "requeue" ELSE "incr"]
    /\ UNCHANGED <<shared, job, attempt, localPath, didOk, exc, pend, result, history>>
    /\ UNCHANGED ext

\* the job puts a fresh copy of itself on its own queue: enqueue_in, or
\* enqueue when enqueue_in is not there; then it returns
Requeue(w) ==
    /\ pc[w] = "requeue"
    /\ \/ /\ delayed' = EnqueueIn(delayed, job[w])
          /\ UNCHANGED queue
       \/ /\ queue' = Enqueue(queue, job[w])
          /\ UNCHANGED delayed
    /\ result' = [result EXCEPT ![w] = [kind |-> "returned", value |-> "re-queued"]]
    /\ requeued' = [requeued EXCEPT ![job[w]] = TRUE]
    /\ pc' = [pc EXCEPT ![w] = "done"]
    /\ UNCHANGED <<counter, dir, procSet, procKey, subPc>>
    /\ UNCHANGED <<job, attempt, localPath, didOk, exc, pend>>
    /\ UNCHANGED <<incs, decs, scanned, firstEntry, crashed>>
    /\ UNCHANGED ext

\* the scheduler hands a delayed job for repo r to the analyzer queue
Deliver(r) ==
    /\ delayed[r] > 0
    /\ delayed' = [delayed EXCEPT ![r] = @ - 1]
    /\ queue' = Append(queue, r)
    /\ UNCHANGED <<counter, dir, procSet, procKey, subPc, locals, history>>
    /\ UNCHANGED ext

\* the scheduler hands a delayed job to the analyzer queue
DeliverDelayed == \E r \in Repos : Deliver(r)

\* current_pipeline_id = redis.incr(...); the try block is entered
Acquire(w) ==
    /\ pc[w] = "incr"
    /\ counter' = Incr(counter)
    /\ incs' = [incs EXCEPT ![w] = @ + 1]
    /\ attempt' = [attempt EXCEPT ![w] = 1]
    /\ pc' = [pc EXCEPT ![w] = "clone"]
    /\ UNCHANGED <<queue, delayed, dir, procSet, procKey, subPc>>
    /\ UNCHANGED <<job, localPath, didOk, exc, pend, result>>
    /\ UNCHANGED <<decs, scanned, firstEntry, requeued, crashed>>
    /\ UNCHANGED ext

\* one attempt of clone_repo_with_retries that exits 0: an old directory is
\* removed, git clone fills the directory, the path is returned
CloneOk(w) ==
    /\ pc[w] = "clone"
    /\ dir' = [dir EXCEPT ![job[w]] = TRUE]
    /\ localPath' = [localPath EXCEPT ![w] = TRUE]
    /\ pc' = [pc EXCEPT ![w] = "scan"]
    /\ UNCHANGED <<counter, queue, delayed, procSet, procKey, subPc>>
    /\ UNCHANGED <<job, attempt, didOk, exc, pend, result, history>>
    /\ UNCHANGED ext

\* one attempt that fails (non-zero exit or timeout): either the backoff sleep
\* and the next attempt, with whatever git left of the directory, or the last
\* attempt: the directory is removed and None is returned, and the job
\* executes return "clone failed for ..." inside the try body
CloneFail(w) ==
    /\ pc[w] = "clone"
    /\ IF MoreAttempts(attempt[w])
       THEN /\ attempt' = [attempt EXCEPT ![w] = @ + 1]
            /\ \E left \in BOOLEAN : dir' = [dir EXCEPT ![job[w]] = left]
            /\ UNCHANGED <<pc, pend>>
       ELSE /\ dir' = [dir EXCEPT ![job[w]] = FALSE]
            /\ pend' = [pend EXCEPT ![w] = "clone failed"]
            /\ pc' = [pc EXCEPT ![w] = AfterCloneGiveUp]
            /\ UNCHANGED attempt
    /\ UNCHANGED <<counter, queue, delayed, procSet, procKey, subPc>>
    /\ UNCHANGED <<job, localPath, didOk, exc, result, history>>
    /\ UNCHANGED ext

\* an exception raised inside clone_repo_with_retries (os.makedirs failing
\* after an rmtree that could not remove the old directory, the job timeout
\* firing while git clone runs): the directory is as the attempt left it,
\* local_repo_path was never assigned, the except clause re-raises
CloneRaise(w) ==
    /\ pc[w] = "clone"
    /\ \E left \in BOOLEAN : dir' = [dir EXCEPT ![job[w]] = left]
    /\ exc' = [exc EXCEPT ![w] = TRUE]
    /\ pc' = [pc EXCEPT ![w] = "cleanup"]
    /\ UNCHANGED <<counter, queue, delayed, procSet, procKey, subPc>>
    /\ UNCHANGED <<job, attempt, localPath, didOk, pend, result, history>>
    /\ UNCHANGED ext

\* the scanning steps A, B, C run to the end: did_analysis_finish_ok = True
ScanOk(w) ==
    /\ pc[w] = "scan"
    /\ didOk' = [didOk EXCEPT ![w] = TRUE]
    /\ scanned' = [scanned EXCEPT ![w] = TRUE]
    /\ pc' = [pc EXCEPT ![w] = "cleanup"]
    /\ UNCHANGED <<shared, job, attempt, localPath, exc, pend, result>>
    /\ UNCHANGED <<incs, decs, firstEntry, requeued, crashed>>
    /\ UNCHANGED ext

\* an exception raised while scanning: the except clause prints and re-raises
ScanRaise(w) ==
    /\ pc[w] = "scan"
    /\ exc' = [exc EXCEPT ![w] = TRUE]
    /\ pc' = [pc EXCEPT ![w] = "cleanup"]
    /\ UNCHANGED <<shared, job, attempt, localPath, didOk, pend, result, history>>
    /\ UNCHANGED ext

\* finally: if local_repo_path and os.path.exists(local_repo_path): rmtree
Cleanup(w) ==
    /\ pc[w] = "cleanup"
    /\ dir' = IF CleanupRemoves(w) THEN [dir EXCEPT ![job[w]] = FALSE] ELSE dir
    /\ pc' = [pc EXCEPT ![w] = AfterCleanup]
    /\ UNCHANGED <<counter, queue, delayed, procSet, procKey, subPc>>
    /\ UNCHANGED <<job, attempt, localPath, didOk, exc, pend, result, history>>
    /\ UNCHANGED ext

\* what follows the release in the finally block: the marking when the
\* analysis finished, else the return of the failure message
AfterRelease(w) ==
    IF MarksProcessed(didOk[w])
    THEN /\ pc' = [pc EXCEPT ![w] = "sadd"]
         /\ UNCHANGED result
    ELSE /\ pc' = [pc EXCEPT ![w] = "done"]
         /\ result' = [result EXCEPT ![w] = FinallyResult(didOk[w], pend[w], exc[w])]

\* finally: redis.decr(ACTIVE_PIPELINES_COUNTER_KEY); the store answers, so
\* the except clause around the call is not entered
Release(w) ==
    /\ pc[w] = "decr"
    /\ counter' = Decr(counter)
    /\ decs' = [decs EXCEPT ![w] = @ + 1]
    /\ AfterRelease(w)
    /\ UNCHANGED <<queue, delayed, dir, procSet, procKey, subPc>>
    /\ UNCHANGED <<job, attempt, localPath, didOk, exc, pend>>
    /\ UNCHANGED <<incs, scanned, firstEntry, requeued, crashed>>
    /\ UNCHANGED ext

\* the marking is complete: the first completed marking of a repo is recorded,
\* and the finally block returns the success message
MarkDone(w) ==
    /\ firstEntry' = [firstEntry EXCEPT ![job[w]] =
                        IF @ = NoEntry THEN CacheEntry(procSet', procKey', job[w]) ELSE @]
    /\ result' = [result EXCEPT ![w] = FinallyResult(didOk[w], pend[w], exc[w])]
    /\ pc' = [pc EXCEPT ![w] = "done"]

\* redis_cache_conn.sadd(PROCESSED_REPOS_SET_KEY, repo_full_name)
MarkSAdd(w) ==
    /\ pc[w] = "sadd"
    /\ procSet' = SAdd(procSet, job[w])
    /\ pc' = [pc EXCEPT ![w] = "set"]
    /\ UNCHANGED <<counter, queue, delayed, dir, procKey, subPc>>
    /\ UNCHANGED <<job, attempt, localPath, didOk, exc, pend, result, history>>
    /\ UNCHANGED ext

\* redis_cache_conn.set(cache_key, 1); without a TTL the job returns here
MarkSet(w) ==
    /\ pc[w] = "set"
    /\ procKey' = SetKey(procKey, job[w])
    /\ IF PROCESSED_REPOS_CACHE_TTL_SECONDS > 0
       THEN /\ pc' = [pc EXCEPT ![w] = "expire"]
            /\ UNCHANGED <<result, firstEntry>>
       ELSE /\ UNCHANGED procSet
            /\ MarkDone(w)
    /\ UNCHANGED <<counter, queue, delayed, dir, procSet, subPc>>
    /\ UNCHANGED <<job, attempt, localPath, didOk, exc, pend>>
    /\ UNCHANGED <<incs, decs, scanned, requeued, crashed>>
    /\ UNCHANGED ext

\* redis_cache_conn.expire(cache_key, TTL), then return "analyzed ..."
MarkExpire(w) ==
    /\ pc[w] = "expire"
    /\ procKey' = Expire(procKey, job[w])
    /\ UNCHANGED procSet
    /\ MarkDone(w)
    /\ UNCHANGED <<counter, queue, delayed, dir, subPc>>
    /\ UNCHANGED <<job, attempt, localPath, didOk, exc, pend>>
    /\ UNCHANGED <<incs, decs, scanned, requeued, crashed>>
    /\ UNCHANGED ext

\* the broker has the job's result; the worker is free for the next job
JobEnd(w) ==
    /\ pc[w] = "done"
    /\ pc' = [pc EXCEPT ![w] = "idle"]
    /\ job' = [job EXCEPT ![w] = NoJob]
    /\ attempt' = [attempt EXCEPT ![w] = 0]
    /\ localPath' = [localPath EXCEPT ![w] = FALSE]
    /\ didOk' = [didOk EXCEPT ![w] = FALSE]
    /\ exc' = [exc EXCEPT ![w] = FALSE]
    /\ pend' = [pend EXCEPT ![w] = "none"]
    /\ result' = [result EXCEPT ![w] = NoResult]
    /\ incs' = [incs EXCEPT ![w] = 0]
    /\ decs' = [decs EXCEPT ![w] = 0]
    /\ scanned' = [scanned EXCEPT ![w] = FALSE]
    /\ UNCHANGED <<shared, firstEntry, requeued, crashed>>
    /\ UNCHANGED ext

\* the worker process is killed (SIGKILL, the host going down) while its job
\* holds a slot: between the incr and the decr of the finally block.  No
\* handler runs: the counter and the clone directory stay as they are, the
\* job is gone, and the supervisor starts a fresh worker in its place
Kill(w) ==
    /\ pc[w] \in {"clone", "scan", "cleanup", "decr"}
    /\ crashed' = crashed + 1
    /\ pc' = [pc EXCEPT ![w] = "idle"]
    /\ job' = [job EXCEPT ![w] = NoJob]
    /\ attempt' = [attempt EXCEPT ![w] = 0]
    /\ localPath' = [localPath EXCEPT ![w] = FALSE]
    /\ didOk' = [didOk EXCEPT ![w] = FALSE]
    /\ exc' = [exc EXCEPT ![w] = FALSE]
    /\ pend' = [pend EXCEPT ![w] = "none"]
    /\ result' = [result EXCEPT ![w] = NoResult]
    /\ incs' = [incs EXCEPT ![w] = 0]
    /\ decs' = [decs EXCEPT ![w] = 0]
    /\ scanned' = [scanned EXCEPT ![w] = FALSE]
    /\ UNCHANGED <<shared, firstEntry, requeued>>
    /\ UNCHANGED ext

\* the worker process is killed while the finally block marks the repo, after
\* the decr: the commands already sent stay done, the rest are never sent
KillMarking(w) ==
    /\ pc[w] \in {"sadd", "set", "expire"}
    /\ pc' = [pc EXCEPT ![w] = "idle"]
    /\ job' = [job EXCEPT ![w] = NoJob]
    /\ attempt' = [attempt EXCEPT ![w] = 0]
    /\ localPath' = [localPath EXCEPT ![w] = FALSE]
    /\ didOk' = [didOk EXCEPT ![w] = FALSE]
    /\ exc' = [exc EXCEPT ![w] = FALSE]
    /\ pend' = [pend EXCEPT ![w] = "none"]
    /\ result' = [result EXCEPT ![w] = NoResult]
    /\ incs' = [incs EXCEPT ![w] = 0]
    /\ decs' = [decs EXCEPT ![w] = 0]
    /\ scanned' = [scanned EXCEPT ![w] = FALSE]
    /\ UNCHANGED <<shared, firstEntry, requeued, crashed>>
    /\ UNCHANGED ext

\* ------------------------------------ submit_jobs.get_active_pipelines_count
\* if not redis_conn.exists(ACTIVE_PIPELINES_COUNTER_KEY)
SubmitterExists ==
    /\ subPc = "exists"
    /\ subPc' = IF KeyExists(counter) THEN "exists" ELSE "init"
    /\ UNCHANGED <<counter, queue, delayed, dir, procSet, procKey, locals, history>>
    /\ UNCHANGED ext

\* redis_conn.set(ACTIVE_PIPELINES_COUNTER_KEY, 0); the value is read and
\* the wait loop observes again later
SubmitterInit ==
    /\ subPc = "init"
    /\ counter' = SetZero(counter)
    /\ subPc' = "exists"
    /\ UNCHANGED <<queue, delayed, dir, procSet, procKey, locals, history>>
    /\ UNCHANGED ext

\* ------------------------------------------------ the processed-repo cache
\* redis_cache_conn.exists(f"escaped:processed:{full_name}")
IsProcessed(k, r) == k[r] # "absent"

\* the store drops a key whose expiry time has come
KeyExpires ==
    /\ \E r \in Repos :
        /\ procKey[r] = "expiring"
        /\ procKey' = [procKey EXCEPT ![r] = "absent"]
    /\ UNCHANGED <<counter, queue, delayed, dir, procSet, subPc, locals, history, ext>>

\* ------------------------------- crawler.discover_repos_from_org_list_job
\* what `gh repo list` can print for one org: up to MAX_REPOS_PER_ORG distinct
\* names; nothing when the command fails or the org has no repos
Listings ==
    {l \in UNION {[1..n -> Repos] : n \in 0..MAX_REPOS_PER_ORG} :
        \A i, j \in 1..Len(l) : i # j => l[i] # l[j]}

\* time since pushedAt, in half days
HalfDays == (0 - 1)..(2 * MAX_REPO_AGE_DAYS + 2)

\* what `gh repo view --json diskUsage,pushedAt,isFork` can give: no result
\* (non-zero exit, no output), output that is not JSON, or a JSON object whose
\* pushedAt is missing, not an ISO date, or a date, and whose diskUsage is a
\* number (0 also stands for a missing one)
MetaOutcomes ==
    {[kind |-> k, pushed |-> "none", age |-> 0, disk |-> 0] : k \in {"failed", "unparsable"}}
    \cup {[kind |-> "json", pushed |-> p, age |-> 0, disk |-> d] :
            p \in {"none", "malformed"}, d \in 0..(MAX_REPO_SIZE_KB + 1)}
    \cup {[kind |-> "json", pushed |-> "iso", age |-> a, disk |-> d] :
            a \in HalfDays, d \in 0..(MAX_REPO_SIZE_KB + 1)}

NoMeta == [kind |-> "none", pushed |-> "none", age |-> 0, disk |-> 0]

\* if MAX_REPO_AGE_DAYS > 0 or MAX_REPO_SIZE_KB > 0
FiltersEnabled == MAX_REPO_AGE_DAYS > 0 \/ MAX_REPO_SIZE_KB > 0

\* if view_result and view_result.returncode == 0 and view_result.stdout
Fetched(m) == m.kind # "failed"

\* (datetime.now(timezone.utc) - pushed_at_dt).days: whole days, rounded down
AgeDays(halfDays) == halfDays \div 2

\* an age test that ignores the limit
TooOldNever(m) == FALSE

\* the age check: only with the limit set and pushedAt present
TooOld(m) ==
    /\ MAX_REPO_AGE_DAYS > 0
    /\ m.pushed = "iso"
    /\ AgeDays(m.age) > MAX_REPO_AGE_DAYS

\* the size check: only with the limit set and a diskUsage that is not falsy
TooLarge(m) ==
    /\ MAX_REPO_SIZE_KB > 0
    /\ m.disk # 0
    /\ m.disk > MAX_REPO_SIZE_KB

\* datetime.fromisoformat raises ValueError on a pushedAt that is no ISO
\* date; the except ValueError of the loop body catches it
RaisesValueError(m) == MAX_REPO_AGE_DAYS > 0 /\ m.pushed = "malformed"

\* a fetch failure that drops the repo
MetaDecisionFailClosed(m) ==
    IF ~Fetched(m) THEN "skip"
    ELSE IF m.kind = "unparsable" THEN "enqueue"
    ELSE IF RaisesValueError(m) THEN "invalid"
    ELSE IF TooOld(m) \/ TooLarge(m) THEN "skip"
    ELSE "enqueue"

\* what the loop body does with a repo once `gh repo view` has answered
MetaDecision(m) ==
    IF ~Fetched(m) THEN "enqueue"
    ELSE IF m.kind = "unparsable" THEN "enqueue"
    ELSE IF RaisesValueError(m) THEN "invalid"
    ELSE IF TooOld(m) \/ TooLarge(m) THEN "skip"
    ELSE "enqueue"

\* a discovery job for a batch of n org names
OrgListJob(n) == [kind |-> "orgs", orgs |-> n]

\* what was done with a listed repo: the repo, and how the loop body left it
Decision(r, how) == [repo |-> r, how |-> how]

NoDecision == Decision(NoJob, "none")

\* how a repo that reaches the enqueue got there
Passed(m) ==
    IF m.kind = "none" THEN "unfiltered"
    ELSE IF ~Fetched(m) THEN "failopen"
    ELSE IF m.kind = "unparsable" THEN "unparsed"
    ELSE "passed"

\* how the filter dropped a repo
Dropped(m) ==
    IF RaisesValueError(m) THEN "invalid"
    ELSE IF TooOld(m) THEN "old"
    ELSE "large"

CrawlIdle == [pc |-> "idle", orgs |-> 0, todo |-> <<>>, cur |-> NoJob, meta |-> NoMeta,
              last |-> NoDecision]

\* a cache check that never finds the key
SkipsNever(k, r) == FALSE

\* if redis_cache_conn.exists(cache_key): skipped_count += 1; continue
Skips(k, r) == IsProcessed(k, r)

\* the loop goes on: the next listed name, the next org of the batch, or the
\* return at the end of the job; `how` records what was done with the repo
CrawlNext(how) ==
    LET rest == Tail(crawl.todo) IN
    crawl' = [crawl EXCEPT
                !.todo = rest,
                !.cur = NoJob,
                !.meta = NoMeta,
                !.last = how,
                !.pc = IF rest # <<>> THEN "check"
                       ELSE IF crawl.orgs > 0 THEN "list" ELSE "done"]

\* the crawler worker takes an org-list job off the crawler queue
CrawlDequeue ==
    /\ crawl.pc = "idle"
    /\ cqueue # <<>>
    /\ Head(cqueue).kind = "orgs"
    /\ cqueue' = Tail(cqueue)
    /\ crawl' = [crawl EXCEPT !.pc = "list", !.orgs = Head(cqueue).orgs]
    /\ UNCHANGED <<shared, locals, history, sub, restore, names, body, mq>>

\* for org_name in org_names_list: gh repo list; a failed or empty listing
\* goes on to the next org
CrawlList ==
    /\ crawl.pc = "list"
    /\ \E l \in Listings :
        crawl' = [crawl EXCEPT
                    !.orgs = @ - 1,
                    !.todo = l,
                    !.pc = IF l # <<>> THEN "check"
                           ELSE IF crawl.orgs > 1 THEN "list" ELSE "done"]
    /\ UNCHANGED <<shared, locals, history, cqueue, sub, restore, names, body, mq>>

\* for full_name in repo_full_names: the cache check; a repo that is not
\* skipped goes to the metadata fetch, or straight to the enqueue when no
\* filter is enabled
CrawlCheck ==
    /\ crawl.pc = "check"
    /\ LET r == Head(crawl.todo) IN
        IF Skips(procKey, r)
        THEN CrawlNext(Decision(r, "cached"))
        ELSE crawl' = [crawl EXCEPT
                         !.cur = r,
                         !.pc = IF FiltersEnabled THEN "view" ELSE "enqueue"]
    /\ UNCHANGED <<shared, locals, history, cqueue, sub, restore, names, body, mq>>

\* view_result = run_command(["gh", "repo", "view", full_name, ...])
CrawlView ==
    /\ crawl.pc = "view"
    /\ \E m \in MetaOutcomes : crawl' = [crawl EXCEPT !.meta = m, !.pc = "filter"]
    /\ UNCHANGED <<shared, locals, history, cqueue, sub, restore, names, body, mq>>

\* the filter: the repo is dropped (too old, too large, or the ValueError of
\* a pushedAt that does not parse), or goes on to the enqueue
CrawlFilter ==
    /\ crawl.pc = "filter"
    /\ IF MetaDecision(crawl.meta) = "enqueue"
       THEN crawl' = [crawl EXCEPT !.pc = "enqueue"]
       ELSE CrawlNext(Decision(crawl.cur, Dropped(crawl.meta)))
    /\ UNCHANGED <<shared, locals, history, cqueue, sub, restore, names, body, mq>>

\* analyzer_q.enqueue('...analyze_repository_job', org, repo, job_timeout='3h')
CrawlEnqueue ==
    /\ crawl.pc = "enqueue"
    /\ queue' = Enqueue(queue, crawl.cur)
    /\ CrawlNext(Decision(crawl.cur, Passed(crawl.meta)))
    /\ UNCHANGED <<counter, delayed, dir, procSet, procKey, subPc>>
    /\ UNCHANGED <<locals, history, cqueue, sub, restore, names, body, mq>>

\* return f"Crawled ... organizations, enqueued ... repos for analysis."
CrawlEnd ==
    /\ crawl.pc = "done"
    /\ crawl' = [crawl EXCEPT !.pc = "idle"]
    /\ UNCHANGED <<shared, locals, history, cqueue, sub, restore, names, body, mq>>

\* ------------------------------ crawler.discover_repos_from_gh_search_job
\* a line of what `gh search repos --jq .items[].nameWithOwner` prints: a full
\* name (the text has a '/'), some other text (no '/'), or an empty line
NameLine(r) == [empty |-> FALSE, slash |-> TRUE, repo |-> r]
TextLine == [empty |-> FALSE, slash |-> FALSE, repo |-> NoJob]
EmptyLine == [empty |-> TRUE, slash |-> FALSE, repo |-> NoJob]

SearchLines == {NameLine(r) : r \in Repos} \cup {TextLine, EmptyLine}

\* what run_command(search_cmd) hands back: None, a non-zero exit, or exit 0
\* with the lines of stdout (no lines at all: stdout is the empty string)
SearchResults ==
    {[kind |-> k, lines |-> <<>>] : k \in {"none", "nonzero"}}
    \cup {[kind |-> "ok", lines |-> l] :
            l \in UNION {[1..n -> SearchLines] : n \in 0..MaxSearchLines}}

\* if not search_result or search_result.returncode != 0 or not search_result.stdout
SearchFailed(res) == res.kind # "ok" \/ res.lines = <<>>

\* a filter that keeps every line that is not empty
KeepsAnyText(l) == ~l.empty

\* [name for name in ...split('\n') if name and '/' in name]
KeepsLine(l) == ~l.empty /\ l.slash

\* repo_full_names: the kept lines, in order
RECURSIVE FullNames(_)
FullNames(lines) ==
    IF lines = <<>> THEN <<>>
    ELSE IF KeepsLine(Head(lines)) THEN <<Head(lines).repo>> \o FullNames(Tail(lines))
    ELSE FullNames(Tail(lines))

\* a search job at its start: out is what the command printed, todo the names
\* still to enqueue, ret the message the job returns
SearchStart == [pc |-> "search", out |-> <<>>, ran |-> FALSE, todo |-> <<>>, ret |-> "none"]

\* the crawler worker takes a search job off the crawler queue
SearchDequeue ==
    /\ crawl.pc = "idle"
    /\ cqueue # <<>>
    /\ Head(cqueue).kind = "search"
    /\ cqueue' = Tail(cqueue)
    /\ crawl' = SearchStart
    /\ UNCHANGED <<shared, locals, history, sub, restore, names, body, mq>>

\* search_result = run_command(search_cmd): the failure return, or the list of
\* full names; an empty list goes straight to the return at the end
SearchRun ==
    /\ crawl.pc = "search"
    /\ \E res \in SearchResults :
        crawl' = IF SearchFailed(res)
                 THEN [crawl EXCEPT !.pc = "return", !.ran = res.kind = "ok",
                                    !.ret = "GitHub search failed"]
                 ELSE [crawl EXCEPT !.out = res.lines, !.ran = TRUE,
                                    !.todo = FullNames(res.lines),
                                    !.pc = IF FullNames(res.lines) # <<>>
                                           THEN "enqueue" ELSE "return",
                                    !.ret = IF FullNames(res.lines) # <<>>
                                            THEN "none" ELSE "GitHub search processed"]
    /\ UNCHANGED <<shared, locals, history, cqueue, sub, restore, names, body, mq>>

\* for full_name in repo_full_names: org, repo = full_name.split('/', 1), which
\* cannot raise on a name that has a '/'; analyzer_q.enqueue(...)
SearchEnqueue ==
    /\ crawl.pc = "enqueue"
    /\ queue' = Enqueue(queue, Head(crawl.todo))
    /\ crawl' = [crawl EXCEPT !.todo = Tail(@),
                              !.pc = IF Tail(crawl.todo) # <<>> THEN "enqueue" ELSE "return",
                              !.ret = IF Tail(crawl.todo) # <<>>
                                      THEN "none" ELSE "GitHub search processed"]
    /\ UNCHANGED <<counter, delayed, dir, procSet, procKey, subPc>>
    /\ UNCHANGED <<locals, history, cqueue, sub, restore, names, body, mq>>

\* the job has returned its message; the worker waits for the next job
SearchEnd ==
    /\ crawl.pc = "return"
    /\ crawl' = CrawlIdle
    /\ UNCHANGED <<shared, locals, history, cqueue, sub, restore, names, body, mq>>

\* ------------------------------------------ submit_jobs: the three submitters
SUBMITTER_TARGET_ANALYZER_Q_BUFFER == GLOBAL_MAX_CONCURRENT_PIPELINES * 2

DiscoveryModes == {"orgs", "search"}

\* an admission test for discovery jobs that looks at the queues only
DiscoveryAdmitsOnQueues(active, combined) ==
    combined < SUBMITTER_TARGET_ANALYZER_Q_BUFFER * 2

\* if active_pipelines < (GLOBAL_MAX_CONCURRENT_PIPELINES + 5) and
\*    combined_q_len < (SUBMITTER_TARGET_ANALYZER_Q_BUFFER * 2): break
DiscoveryAdmits(active, combined) ==
    /\ active < GLOBAL_MAX_CONCURRENT_PIPELINES + SUBMITTER_HEADROOM
    /\ combined < SUBMITTER_TARGET_ANALYZER_Q_BUFFER * 2

\* an admission test for direct jobs whose second clause forgets the counter
DirectAdmitsOnShortQueue(active, len) ==
    \/ active < GLOBAL_MAX_CONCURRENT_PIPELINES
    \/ 2 * len < SUBMITTER_TARGET_ANALYZER_Q_BUFFER

\* if active_pipelines < GLOBAL_MAX_CONCURRENT_PIPELINES or
\*    (active_pipelines == GLOBAL_MAX_CONCURRENT_PIPELINES and
\*     len_analyzer_q < SUBMITTER_TARGET_ANALYZER_Q_BUFFER / 2): break
\* (the division is Python's true division: len < B / 2 iff 2 * len < B)
DirectAdmits(active, len) ==
    \/ active < GLOBAL_MAX_CONCURRENT_PIPELINES
    \/ /\ active = GLOBAL_MAX_CONCURRENT_PIPELINES
       /\ 2 * len < SUBMITTER_TARGET_ANALYZER_Q_BUFFER

\* a discovery job for a search query
SearchJob == [kind |-> "search", orgs |-> 0]

\* the size of current_batch_of_orgs when n org names are still to be sent
BatchOf(n) == IF n < SUBMITTER_BATCH_SIZE THEN n ELSE SUBMITTER_BATCH_SIZE

\* all_organizations: the accepted lines of org_list_file in input order, each
\* named by its position
AllOrganizations(n) == [k \in 1..n |-> k]

\* a slice that always starts at the head of the list
SliceFromHead(s, i, j) == SubSeq(s, 1, IF j - i < Len(s) THEN j - i ELSE Len(s))

\* Python's s[i:j] for 0 <= i <= j
Slice(s, i, j) == SubSeq(s, i + 1, IF j < Len(s) THEN j ELSE Len(s))

\* a submitter at the top of its wait loop: mode is the function main calls,
\* orgs the org names not yet sent, repos the direct repos not yet sent,
\* active and lenC what the current pass of the loop has read so far, slept
\* whether the loop has slept for the current item, sent the jobs enqueued,
\* total the length of all_organizations, batches the batches sent so far
Submitter(mode, orgs, repos) ==
    [pc |-> "exists", mode |-> mode, orgs |-> orgs, repos |-> repos,
     active |-> 0, lenC |-> 0, slept |-> FALSE, sent |-> 0,
     total |-> orgs, batches |-> <<>>]

\* get_active_pipelines_count: if not redis_conn.exists(...)
SubExists ==
    /\ sub.pc = "exists"
    /\ sub' = [sub EXCEPT !.pc = IF KeyExists(counter) THEN "get" ELSE "init"]
    /\ UNCHANGED <<shared, locals, history, cqueue, crawl, restore, names, body, mq>>

\* get_active_pipelines_count: redis_conn.set(ACTIVE_PIPELINES_COUNTER_KEY, 0)
SubInit ==
    /\ sub.pc = "init"
    /\ counter' = SetZero(counter)
    /\ sub' = [sub EXCEPT !.pc = "get"]
    /\ UNCHANGED <<queue, delayed, dir, procSet, procKey, subPc>>
    /\ UNCHANGED <<locals, history, cqueue, crawl, restore, names, body, mq>>

\* active_pipelines = int(redis_conn.get(...) or 0)
SubGet ==
    /\ sub.pc = "get"
    /\ sub' = [sub EXCEPT !.active = GetInt(counter),
                          !.pc = IF sub.mode \in DiscoveryModes THEN "countC" ELSE "countA"]
    /\ UNCHANGED <<shared, locals, history, cqueue, crawl, restore, names, body, mq>>

\* len_crawler_q = crawler_q.count
SubCountCrawler ==
    /\ sub.pc = "countC"
    /\ sub' = [sub EXCEPT !.lenC = Len(cqueue), !.pc = "countA"]
    /\ UNCHANGED <<shared, locals, history, cqueue, crawl, restore, names, body, mq>>

\* the last read of a pass, the analyzer queue's count, and the test: break,
\* or sleep and go round the wait loop again
SubCountAnalyzer ==
    /\ sub.pc = "countA"
    /\ LET ok == IF sub.mode \in DiscoveryModes
                 THEN DiscoveryAdmits(sub.active, sub.lenC + Len(queue))
                 ELSE DirectAdmits(sub.active, Len(queue))
       IN sub' = [sub EXCEPT !.pc = IF ok THEN "enqueue" ELSE "exists",
                             !.slept = IF ok THEN @ ELSE TRUE,
                             !.active = IF ok THEN @ ELSE 0,
                             !.lenC = IF ok THEN @ ELSE 0]
    /\ UNCHANGED <<shared, locals, history, cqueue, crawl, restore, names, body, mq>>

\* the enqueue after the wait loop, and the step to the next item: the next
\* batch of orgs, the next repo, or the end of the function
SubEnqueue ==
    /\ sub.pc = "enqueue"
    /\ \/ /\ sub.mode = "orgs"
          /\ LET i == sub.total - sub.orgs
                 current_batch_of_orgs ==
                     Slice(AllOrganizations(sub.total), i, i + SUBMITTER_BATCH_SIZE)
             IN /\ cqueue' = Append(cqueue, OrgListJob(Len(current_batch_of_orgs)))
                /\ sub' = [sub EXCEPT
                             !.orgs = @ - BatchOf(@),
                             !.pc = IF sub.orgs > BatchOf(sub.orgs) THEN "exists" ELSE "done",
                             !.active = 0, !.lenC = 0, !.slept = FALSE, !.sent = @ + 1,
                             !.batches = Append(@, current_batch_of_orgs)]
          /\ UNCHANGED queue
       \/ /\ sub.mode = "search"
          /\ cqueue' = Append(cqueue, SearchJob)
          /\ sub' = [sub EXCEPT !.pc = "done",
                                !.active = 0, !.lenC = 0, !.slept = FALSE, !.sent = @ + 1]
          /\ UNCHANGED queue
       \/ /\ sub.mode = "direct"
          /\ queue' = Enqueue(queue, Head(sub.repos))
          /\ sub' = [sub EXCEPT !.repos = Tail(@),
                                !.pc = IF Tail(sub.repos) # <<>> THEN "exists" ELSE "done",
                                !.active = 0, !.lenC = 0, !.slept = FALSE, !.sent = @ + 1]
          /\ UNCHANGED cqueue
    /\ UNCHANGED <<counter, delayed, dir, procSet, procKey, subPc>>
    /\ UNCHANGED <<locals, history, crawl, restore, names, body, mq>>

\* ------------------------------------ analyzer.restore_deleted_files_in_repo
\* the lines the diff calls of one run print, in the order the three nested
\* loops (commits, parents, diff lines) meet them; status D is a deletion, M
\* stands for every other status
DiffLines ==
    [commit : 1..NumCommits, parent : 1..NumParents, path : 1..NumPaths,
     status : {"D", "M"}]

\* a key that tells the child commits of one deletion apart
VersionKeyPerCommit(commit, parent, path) == <<commit, parent, path>>

\* version_key = f"{parent_sha}:{file_path_original}"; a sha holds no ':', so
\* the string names the pair
VersionKey(commit, parent, path) == <<parent, path>>

\* what the walk meets besides diff lines: a commit whose parent lookup gives
\* nothing (the root commit, or git log failing), and a pair of commit and
\* parent whose git diff gives nothing (no change, or git diff failing)
WalkSteps ==
    DiffLines
    \cup {[commit |-> c, parent |-> p, path |-> 1, status |-> "nodiff"] :
            c \in 1..NumCommits, p \in 1..NumParents}
    \cup {[commit |-> c, parent |-> 1, path |-> 1, status |-> "noparent"] :
            c \in 1..NumCommits}

\* the paths of the repo by name: d/f, d_f, d\f, and longer ones
PathName(f) ==
    <<"d", <<"/", "_", "\\">>[((f - 1) % 3) + 1], "f">> \o [k \in 1..((f - 1) \div 3) |-> "x"]

\* safe_filename = file_path_original.replace('/', '_').replace('\\', '_')
SafeFilename(name) ==
    [k \in 1..Len(name) |-> IF name[k] \in {"/", "\\"} THEN "_" ELSE name[k]]

\* output_filepath: f"commit_{commit_sha}_parent_{parent_sha}_deleted_{safe_filename}"
\* in the repo's output directory
OutputName(commit, parent, path) == <<commit, parent, SafeFilename(PathName(path))>>

\* the bytes git show prints for parent:path, named by where they come from
Blob(parent, path) == <<parent, path>>

\* open(output_filepath, "wb") and write: a file of that name is replaced
WriteFile(files, name, content) ==
    {f \in files : f.name # name} \cup {[name |-> name, content |-> content]}

\* how the handling of a new deletion can end: the file written; the write
\* raising (caught, logged); git show failing (logged); git show printing
\* nothing, the blob being empty (taken as a failure, logged); or the open of
\* the audit log raising, which nothing catches
RestoreOutcomes == {"written", "writefailed", "unreadable", "empty", "lograised"}

\* a walk that an error of the write ends
WalkStopsOnWriteError(how) == how \notin {"lograised", "writefailed"}

\* the loops go on to the next line, parent or commit after every outcome that
\* is no exception
WalkGoesOn(how) == how # "lograised"

\* already_restored_versions = {} before the loops; nothing written yet:
\* lines are the steps of the walk, i the next one, seen the version keys
\* recorded, shown how the handling of each ended, writes the files written in
\* order, files the output directory, how the latest step ended
RestoreRun(lines) ==
    [pc |-> "run", lines |-> lines, i |-> 1, seen |-> {}, shown |-> {}, writes |-> <<>>,
     files |-> {}, how |-> "none", ret |-> "none"]

\* one step of the walk.  A commit without parents and a diff without output
\* are passed over.  A diff line: a deletion whose key is new is recorded and
\* logged, then git show runs and, if it gives content, the file is written
\* (an error of the write is only logged); any other line is passed over
RestoreLine ==
    /\ restore.pc = "run"
    /\ restore.i <= Len(restore.lines)
    /\ LET l == restore.lines[restore.i]
           key == VersionKey(l.commit, l.parent, l.path)
       IN IF l.status \in {"noparent", "nodiff"}
          THEN restore' = [restore EXCEPT !.i = @ + 1, !.how = l.status]
          ELSE IF l.status = "D" /\ key \notin restore.seen
          THEN \E o \in RestoreOutcomes :
                 restore' = [restore EXCEPT
                               !.i = IF WalkGoesOn(o) THEN @ + 1 ELSE @,
                               !.pc = IF WalkGoesOn(o) THEN "run" ELSE "raised",
                               !.seen = @ \cup {key},
                               !.shown = @ \cup {<<key, o>>},
                               !.how = o,
                               !.files = IF o = "written"
                                         THEN WriteFile(@, OutputName(l.commit, l.parent, l.path),
                                                        Blob(l.parent, l.path))
                                         ELSE @,
                               !.writes = IF o = "written"
                                          THEN Append(@, [commit |-> l.commit,
                                                          parent |-> l.parent,
                                                          path |-> l.path])
                                          ELSE @]
          ELSE restore' = [restore EXCEPT !.i = @ + 1,
                                          !.how = IF l.status = "D" THEN "known" ELSE "passed"]
    /\ UNCHANGED <<shared, locals, history, cqueue, crawl, sub, names, body, mq>>

\* return output_base_dir
RestoreEnd ==
    /\ restore.pc = "run"
    /\ restore.i > Len(restore.lines)
    /\ restore' = [restore EXCEPT !.pc = "done", !.ret = "output_base_dir"]
    /\ UNCHANGED <<shared, locals, history, cqueue, crawl, sub, names, body, mq>>

\* ------------------- clone_repo_with_retries, _get_safe_output_subdir: paths
\* characters of a name, one of each kind: an ASCII letter, an ASCII digit,
\* the underscore, the dot, the separator, the null byte, a letter outside
\* ASCII (e with acute) and a slash lookalike (the division slash)
Chars == {"a", "7", "_", ".", "/", "NUL", "U+00E9", "U+2215"}

Names == UNION {[1..n -> Chars] : n \in 0..MaxNameLen}

\* str.isalnum for one character: true of every Unicode letter and digit
IsAlnum(c) == c \in {"a", "7", "U+00E9"}

\* "".join(c if c.isalnum() else "_" for c in name)
SafeName(name) == [i \in 1..Len(name) |-> IF IsAlnum(name[i]) THEN name[i] ELSE "_"]

\* os.path.join(base, safe_org, safe_repo) as the list of its segments: an
\* empty component adds no segment
JoinPath(base, safeOrg, safeRepo) ==
    <<base>> \o (IF safeOrg = <<>> THEN <<>> ELSE <<safeOrg>>)
             \o (IF safeRepo = <<>> THEN <<>> ELSE <<safeRepo>>)

NamesIn(org, repo) ==
    [pc |-> "in", org |-> org, repo |-> repo, safeOrg |-> <<>>, safeRepo |-> <<>>,
     path |-> <<>>]

\* the first lines of clone_repo_with_retries (and _get_safe_output_subdir,
\* with its own base): the safe names and the path made of them
DerivePaths ==
    /\ names.pc = "in"
    /\ names' = [names EXCEPT
                   !.pc = "out",
                   !.safeOrg = SafeName(names.org),
                   !.safeRepo = SafeName(names.repo),
                   !.path = JoinPath("GIT_CLONE_PATH", SafeName(names.org),
                                     SafeName(names.repo))]
    /\ UNCHANGED <<shared, locals, history, cqueue, crawl, sub, restore, body, mq>>

\* ------------------------------- the try body of one job, step by step
\* a backoff that does not grow
BaseDelayFlat(a) == CLONE_RETRY_DELAY_SECONDS

\* base_delay = CLONE_RETRY_DELAY_SECONDS * (2 ** (attempt - 1))
BaseDelay(a) == CLONE_RETRY_DELAY_SECONDS * (2 ^ (a - 1))

\* jitter = random.uniform(0, CLONE_RETRY_DELAY_SECONDS * 0.25), in whole seconds
Jitters == 0..(CLONE_RETRY_DELAY_SECONDS \div 4)

\* the three calls of run_analyzers, by their scan_type
SourceTypes == {"local_repo", "restored_files", "dangling_blobs"}

\* the command line run_trufflehog builds: git mode, with --max-depth when
\* SCAN_COMMIT_DEPTH > 0, only for scan_type "repo_history"; filesystem mode
\* for every other scan_type
TrufflehogCmd(scanType, depth) ==
    IF scanType = "repo_history"
    THEN [mode |-> "git", maxDepth |-> depth]
    ELSE [mode |-> "filesystem", maxDepth |-> 0]

\* exit codes of the scanner process; 2 stands for every code that is not 0 or 1
ExitCodes == {0, 1, 2}

\* what Popen and communicate can give: an exit with a code and with or
\* without output on stdout, a timeout, or an exception (the binary missing,
\* the results file not writable); the last two are caught and printed
ProcOutcomes ==
    {[kind |-> "exit", rc |-> c, out |-> o] : c \in ExitCodes, o \in BOOLEAN}
    \cup {[kind |-> k, rc |-> 0, out |-> FALSE] : k \in {"timeout", "error"}}

\* the results file after run_trufflehog: stdout when there is any, "[]" when
\* there is none and the exit code is 0, else what was there before
ResultFile(old, proc) ==
    IF proc.kind # "exit" THEN old
    ELSE IF proc.out THEN "findings"
    ELSE IF proc.rc = 0 THEN "empty_array"
    ELSE old

\* what run_custom_analyzer_on_path can do: write its findings, write [], or
\* raise from the open of its results file, which no try statement guards
CustomOutcomes == {"findings", "empty_array", "raised"}

\* one call of a scanner, as the job would see it in its log: the scan_type,
\* the command and how the process ended
Invocation(type, cmd, proc) ==
    [type |-> type, mode |-> cmd.mode, maxDepth |-> cmd.maxDepth,
     kind |-> proc.kind, rc |-> proc.rc, out |-> proc.out]

NoInvocation ==
    [type |-> "none", mode |-> "none", maxDepth |-> 0, kind |-> "none", rc |-> 0, out |-> FALSE]

\* a job that has its slot and enters the try statement: trufflehog and
\* custom are the job's enable_trufflehog and enable_custom_analyzers, depth
\* is SCAN_COMMIT_DEPTH; waits are the sleeps of clone_repo_with_retries so
\* far, ran the sub-pipelines entered, last the latest scanner invocation,
\* found and custom the results files of the two scanners
BodyStart(trufflehog, custom, depth) ==
    [pc |-> "clone", trufflehog |-> trufflehog, custom |-> custom, depth |-> depth,
     attempt |-> 1, waits |-> <<>>, ran |-> {}, last |-> NoInvocation,
     found |-> [t \in SourceTypes |-> "absent"],
     customFound |-> [t \in SourceTypes |-> "absent"]]

\* an attempt of clone_repo_with_retries that exits 0: the path is returned
\* and Scanning starts; the locals of the function are gone
BodyCloneOk ==
    /\ body.pc = "clone"
    /\ body' = [body EXCEPT !.pc = "history", !.attempt = 0, !.waits = <<>>]
    /\ UNCHANGED <<shared, locals, history, cqueue, crawl, sub, restore, names, mq>>

\* an attempt that fails: the sleep of base_delay + jitter and the next
\* attempt, or, after the last attempt, return None and with it the job's
\* return "clone failed ..."
BodyCloneFail ==
    /\ body.pc = "clone"
    /\ IF MoreAttempts(body.attempt)
       THEN \E jitter \in Jitters :
              body' = [body EXCEPT !.attempt = @ + 1,
                                   !.waits = Append(@, BaseDelay(body.attempt) + jitter)]
       ELSE body' = [body EXCEPT !.pc = "gaveup"]
    /\ UNCHANGED <<shared, locals, history, cqueue, crawl, sub, restore, names, mq>>

\* run_analyzers(path, ..., scan_type, enable_trufflehog, enable_custom_analyzer)
\* as a relation between the body before and after the call: run_trufflehog
\* when enabled, then run_custom_analyzer_on_path when enabled; `next` is
\* where the job goes on when the call returns
RunAnalyzers(type, withCustom, next) ==
    \E proc \in ProcOutcomes, cust \in CustomOutcomes :
        /\ ~body.trufflehog => proc = [kind |-> "exit", rc |-> 0, out |-> FALSE]
        /\ ~withCustom => cust = "empty_array"
        /\ body' = [body EXCEPT
                      !.last = IF body.trufflehog
                               THEN Invocation(type, TrufflehogCmd(type, body.depth), proc)
                               ELSE @,
                      !.found[type] = IF body.trufflehog THEN ResultFile(@, proc) ELSE @,
                      !.customFound[type] = IF withCustom /\ cust # "raised" THEN cust ELSE @,
                      !.ran = @ \cup {type},
                      !.pc = IF withCustom /\ cust = "raised" THEN "raised" ELSE next]

\* A. run_analyzers(path=local_repo_path, scan_type="local_repo",
\*                  enable_trufflehog=enable_trufflehog)
ScanHistory ==
    /\ body.pc = "history"
    /\ RunAnalyzers("local_repo", FALSE, "restore")
    /\ UNCHANGED <<shared, locals, history, cqueue, crawl, sub, restore, names, mq>>

\* how restore_deleted_files_in_repo and extract_dangling_blobs_in_repo,
\* followed by the scandir of their directory, can end: files to scan, no
\* files (nothing found, or a git command failed and the function returned),
\* or an exception that no try statement inside them guards (makedirs, the
\* open of the audit log, scandir)
ExtractOutcomes == {"files", "nothing", "raised"}

\* B. path_to_restored_files = restore_deleted_files_in_repo(...), and the
\* test whether anything was restored
RestoreDeleted ==
    /\ body.pc = "restore"
    /\ \E o \in ExtractOutcomes :
        body' = [body EXCEPT
                   !.ran = @ \cup {"restored_files"},
                   !.pc = CASE o = "files" -> "scanRestored"
                            [] o = "nothing" -> "dangling"
                            [] OTHER -> "raised"]
    /\ UNCHANGED <<shared, locals, history, cqueue, crawl, sub, restore, names, mq>>

\* B. run_analyzers(path=path_to_restored_files, scan_type="restored_files", ...)
ScanRestored ==
    /\ body.pc = "scanRestored"
    /\ RunAnalyzers("restored_files", body.custom, "dangling")
    /\ UNCHANGED <<shared, locals, history, cqueue, crawl, sub, restore, names, mq>>

\* C. path_to_dangling_blobs = extract_dangling_blobs_in_repo(...), and the
\* test whether any blob was saved; with none, did_analysis_finish_ok = True
ExtractDangling ==
    /\ body.pc = "dangling"
    /\ \E o \in ExtractOutcomes :
        body' = [body EXCEPT
                   !.ran = @ \cup {"dangling_blobs"},
                   !.pc = CASE o = "files" -> "scanDangling"
                            [] o = "nothing" -> "end"
                            [] OTHER -> "raised"]
    /\ UNCHANGED <<shared, locals, history, cqueue, crawl, sub, restore, names, mq>>

\* C. run_analyzers(path=path_to_dangling_blobs, scan_type="dangling_blobs", ...),
\* then did_analysis_finish_ok = True
ScanDangling ==
    /\ body.pc = "scanDangling"
    /\ RunAnalyzers("dangling_blobs", body.custom, "end")
    /\ UNCHANGED <<shared, locals, history, cqueue, crawl, sub, restore, names, mq>>

\* ------------------------------------- src/workers/main.py: Worker.process_task
\* pika's BasicProperties.priority when the publisher did not set it (None)
NoPriority == 0 - 1

\* a task on for_github_crawlers: the page of its body (0: the body has no
\* 'page') and the priority of its properties
Task(page, priority) == [page |-> page, priority |-> priority]

NoTask == Task(0, NoPriority)

\* page = message.get('page') or 1
PageOf(t) == IF t.page = 0 THEN 1 ELSE t.page

\* response['total_count'] for searches of up to MaxTotalPages pages: nothing
\* found, or a last page that holds one item or is full
TotalCounts ==
    {0} \cup {PER_PAGE * (t - 1) + 1 : t \in 1..MaxTotalPages}
        \cup {PER_PAGE * t : t \in 1..MaxTotalPages}

\* total_pages = math.ceil(total_count / 100)
TotalPages(total_count) == (total_count + PER_PAGE - 1) \div PER_PAGE

\* len(range(min(total_pages, MAX_MORE_PAGES) - 1))
FollowUps(total_count) ==
    LET n == (IF TotalPages(total_count) < MAX_MORE_PAGES
              THEN TotalPages(total_count) ELSE MAX_MORE_PAGES) - 1
    IN IF n < 0 THEN 0 ELSE n

\* 'page': page + p
FollowUpPage(page, p) == page + p

\* the worker waits on its queue, which holds the given tasks; analyzers counts
\* the messages published to for_github_analyzers
WorkerWaiting(tasks) ==
    [pc |-> "wait", crawlers |-> tasks, analyzers |-> 0, cur |-> NoTask, page |-> 0,
     total_count |-> 0, items |-> 0, p |-> 0, follow |-> <<>>]

\* on_message and the head of process_task: the body is decoded, the search
\* API is asked for the page and answers with total_count and the page's items
\* (counted up to MaxItems; none when nothing was found)
TaskReceive ==
    /\ mq.pc = "wait"
    /\ mq.crawlers # <<>>
    /\ \E tc \in TotalCounts, n \in 0..MaxItems :
        /\ tc = 0 => n = 0
        /\ mq' = [mq EXCEPT !.pc = "items",
                            !.cur = Head(mq.crawlers),
                            !.crawlers = Tail(mq.crawlers),
                            !.page = PageOf(Head(mq.crawlers)),
                            !.total_count = tc,
                            !.items = n,
                            !.p = 0,
                            !.follow = <<>>]
    /\ UNCHANGED <<shared, locals, history, cqueue, crawl, sub, restore, names, body>>

\* for item in response['items']: publish html_url to the output queue; then
\* the test of properties.priority, which only 0 passes
PublishItems ==
    /\ mq.pc = "items"
    /\ mq' = [mq EXCEPT !.analyzers = @ + mq.items,
                        !.pc = IF mq.cur.priority = 0 /\ FollowUps(mq.total_count) > 0
                               THEN "follow" ELSE "ack"]
    /\ UNCHANGED <<shared, locals, history, cqueue, crawl, sub, restore, names, body>>

\* for p in range(min(total_pages, MAX_MORE_PAGES) - 1): one follow-up task
\* with priority 1 goes to the worker's own queue
PublishFollowUp ==
    /\ mq.pc = "follow"
    /\ mq' = [mq EXCEPT !.crawlers = Append(@, Task(FollowUpPage(mq.page, mq.p), 1)),
                        !.follow = Append(@, FollowUpPage(mq.page, mq.p)),
                        !.p = @ + 1,
                        !.pc = IF mq.p + 1 < FollowUps(mq.total_count) THEN "follow" ELSE "ack"]
    /\ UNCHANGED <<shared, locals, history, cqueue, crawl, sub, restore, names, body>>

\* on_message: time.sleep(6); ch.basic_ack(...)
TaskAck ==
    /\ mq.pc = "ack"
    /\ mq' = [mq EXCEPT !.pc = "wait"]
    /\ UNCHANGED <<shared, locals, history, cqueue, crawl, sub, restore, names, body>>

Next ==
    \/ \E w \in Workers : Dequeue(w)
    \/ \E w \in Workers : CheckExists(w)
    \/ \E w \in Workers : InitCounter(w)
    \/ \E w \in Workers : ReadCounter(w)
    \/ \E w \in Workers : Requeue(w)
    \/ \E w \in Workers : Acquire(w)
    \/ DeliverDelayed
    \/ \E w \in Workers : CloneOk(w)
    \/ \E w \in Workers : CloneFail(w)
    \/ \E w \in Workers : CloneRaise(w)
    \/ \E w \in Workers : ScanOk(w)
    \/ \E w \in Workers : ScanRaise(w)
    \/ \E w \in Workers : Cleanup(w)
    \/ \E w \in Workers : Release(w)
    \/ \E w \in Workers : MarkSAdd(w)
    \/ \E w \in Workers : MarkSet(w)
    \/ \E w \in Workers : MarkExpire(w)
    \/ \E w \in Workers : JobEnd(w)
    \/ SubmitterExists
    \/ SubmitterInit

Spec == Init /\ [][Next]_vars

\* ------------------------------------------ workers that can be killed
NextKill ==
    \/ Next
    \/ \E w \in Workers : Kill(w)
    \/ \E w \in Workers : KillMarking(w)

SpecKill == Init /\ [][NextKill]_vars

\* ------------------------------------------------------- a discovery run
\* a deployment with one analyzer worker
FirstWorker == {1}

\* a fresh store, an empty analyzer queue, NumBatches org-list jobs on the
\* crawler queue, an idle crawler worker and an idle analyzer worker
InitCrawl ==
    /\ StoreFresh
    /\ queue = <<>>
    /\ subPc = "exists"
    /\ WorkersIdle
    /\ cqueue \in [1..NumBatches -> {OrgListJob(n) : n \in 1..SUBMITTER_BATCH_SIZE}]
    /\ crawl = CrawlIdle
    /\ sub = Off
    /\ restore = Off
    /\ names = Off
    /\ body = Off
    /\ mq = Off

NextCrawl ==
    \/ CrawlDequeue
    \/ CrawlList
    \/ CrawlCheck
    \/ CrawlView
    \/ CrawlFilter
    \/ CrawlEnqueue
    \/ CrawlEnd
    \/ KeyExpires
    \/ \E w \in FirstWorker : Dequeue(w)
    \/ \E w \in FirstWorker : CheckExists(w)
    \/ \E w \in FirstWorker : InitCounter(w)
    \/ \E w \in FirstWorker : ReadCounter(w)
    \/ \E w \in FirstWorker : Acquire(w)
    \/ \E w \in FirstWorker : CloneOk(w)
    \/ \E w \in FirstWorker : CloneFail(w)
    \/ \E w \in FirstWorker : CloneRaise(w)
    \/ \E w \in FirstWorker : ScanOk(w)
    \/ \E w \in FirstWorker : ScanRaise(w)
    \/ \E w \in FirstWorker : Cleanup(w)
    \/ \E w \in FirstWorker : Release(w)
    \/ \E w \in FirstWorker : MarkSAdd(w)
    \/ \E w \in FirstWorker : MarkSet(w)
    \/ \E w \in FirstWorker : MarkExpire(w)
    \/ \E w \in FirstWorker : JobEnd(w)

SpecCrawl == InitCrawl /\ [][NextCrawl]_vars

\* -------------------------------------------------------- a submitter run
\* the jobs an earlier submission left on the analyzer queue
Backlog(k) == [i \in 1..k |-> 1 + ((i - 1) % NumJobs)]

\* the submitter starts one of its three functions; the counter key is
\* missing or holds what earlier jobs left in it (a job killed between its
\* increment and its decrement leaves its slot taken), the analyzer queue holds
\* a backlog, one analyzer worker runs and no crawler worker does
InitSubmit ==
    /\ counter \in {NoCounter}
          \cup {[present |-> TRUE, value |-> v] :
                  v \in 0..(GLOBAL_MAX_CONCURRENT_PIPELINES + SUBMITTER_HEADROOM)}
    /\ queue \in {Backlog(k) : k \in 0..(2 * SUBMITTER_TARGET_ANALYZER_Q_BUFFER)}
    /\ delayed = [r \in Repos |-> 0]
    /\ dir = [r \in Repos |-> FALSE]
    /\ procSet = {}
    /\ procKey = [r \in Repos |-> "absent"]
    /\ subPc = "exists"
    /\ WorkersIdle
    /\ cqueue = <<>>
    /\ crawl = Off
    /\ sub \in {Submitter("orgs", n, <<>>) : n \in 1..NumOrgs}
               \cup {Submitter("search", 0, <<>>),
                     Submitter("direct", 0, [i \in 1..NumDirect |-> 1])}
    /\ restore = Off
    /\ names = Off
    /\ body = Off
    /\ mq = Off

NextSubmit ==
    \/ SubExists
    \/ SubInit
    \/ SubGet
    \/ SubCountCrawler
    \/ SubCountAnalyzer
    \/ SubEnqueue
    \/ \E w \in FirstWorker : Dequeue(w)
    \/ \E w \in FirstWorker : CheckExists(w)
    \/ \E w \in FirstWorker : InitCounter(w)
    \/ \E w \in FirstWorker : ReadCounter(w)
    \/ \E w \in FirstWorker : Requeue(w)
    \/ DeliverDelayed
    \/ \E w \in FirstWorker : Acquire(w)
    \/ \E w \in FirstWorker : CloneOk(w)
    \/ \E w \in FirstWorker : ScanOk(w)
    \/ \E w \in FirstWorker : Cleanup(w)
    \/ \E w \in FirstWorker : Release(w)
    \/ \E w \in FirstWorker : MarkSAdd(w)
    \/ \E w \in FirstWorker : MarkSet(w)
    \/ \E w \in FirstWorker : MarkExpire(w)
    \/ \E w \in FirstWorker : JobEnd(w)

SpecSubmit == InitSubmit /\ [][NextSubmit]_vars

\* ------------------------------------------- a run of deleted-file recovery
\* nothing else runs
Quiet ==
    /\ StoreFresh
    /\ queue = <<>>
    /\ subPc = "exists"
    /\ WorkersIdle
    /\ cqueue = <<>>
    /\ crawl = Off
    /\ sub = Off

InitRestore ==
    /\ Quiet
    /\ restore \in {RestoreRun(l) : l \in UNION {[1..n -> WalkSteps] : n \in 0..MaxDiffLines}}
    /\ names = Off
    /\ body = Off
    /\ mq = Off

NextRestore ==
    \/ RestoreLine
    \/ RestoreEnd

SpecRestore == InitRestore /\ [][NextRestore]_vars

\* --------------------------------------------------- a derivation of paths
InitNames ==
    /\ Quiet
    /\ restore = Off
    /\ names \in {NamesIn(org, repo) : org \in Names, repo \in Names}
    /\ body = Off
    /\ mq = Off

NextNames == DerivePaths

SpecNames == InitNames /\ [][NextNames]_vars

\* ------------------------------- more jobs than slots, nothing goes wrong
\* NumJobs jobs for distinct repos are enqueued together on a fresh store
InitLive ==
    /\ StoreFresh
    /\ queue = [i \in 1..NumJobs |-> i]
    /\ subPc = "exists"
    /\ WorkersIdle
    /\ cqueue = <<>>
    /\ crawl = Off
    /\ sub = Off
    /\ restore = Off
    /\ names = Off
    /\ body = Off
    /\ mq = Off

\* a step of worker w in a run whose clones and scans succeed
LiveStep(w) ==
    \/ Dequeue(w)
    \/ CheckExists(w)
    \/ InitCounter(w)
    \/ ReadCounter(w)
    \/ Requeue(w)
    \/ Acquire(w)
    \/ CloneOk(w)
    \/ ScanOk(w)
    \/ Cleanup(w)
    \/ Release(w)
    \/ MarkSAdd(w)
    \/ MarkSet(w)
    \/ MarkExpire(w)
    \/ JobEnd(w)

NextLive ==
    \/ \E w \in Workers : LiveStep(w)
    \/ DeliverDelayed

\* every worker process keeps running, and the scheduler delivers every
\* delayed job
Fairness ==
    /\ \A w \in Workers : WF_vars(LiveStep(w))
    /\ \A r \in Repos : WF_vars(Deliver(r))

SpecLive == InitLive /\ [][NextLive]_vars /\ Fairness

\* --------------------------------------------- one job's body, in detail
InitBody ==
    /\ Quiet
    /\ restore = Off
    /\ names = Off
    /\ body \in {BodyStart(t, c, d) : t \in BOOLEAN, c \in BOOLEAN, d \in 0..MaxScanDepth}
    /\ mq = Off

NextBody ==
    \/ BodyCloneOk
    \/ BodyCloneFail
    \/ ScanHistory
    \/ RestoreDeleted
    \/ ScanRestored
    \/ ExtractDangling
    \/ ScanDangling

SpecBody == InitBody /\ [][NextBody]_vars

\* ------------------------------------------------------------ a search job
\* one search job on the crawler queue and an idle crawler worker; some repos
\* were analysed before and have a processed key
InitSearch ==
    /\ counter = NoCounter
    /\ delayed = [r \in Repos |-> 0]
    /\ dir = [r \in Repos |-> FALSE]
    /\ procKey \in [Repos -> {"absent", "expiring"}]
    /\ procSet = {r \in Repos : procKey[r] # "absent"}
    /\ queue = <<>>
    /\ subPc = "exists"
    /\ WorkersIdle
    /\ cqueue = <<SearchJob>>
    /\ crawl = CrawlIdle
    /\ sub = Off
    /\ restore = Off
    /\ names = Off
    /\ body = Off
    /\ mq = Off

NextSearch ==
    \/ SearchDequeue
    \/ SearchRun
    \/ SearchEnqueue
    \/ SearchEnd

SpecSearch == InitSearch /\ [][NextSearch]_vars

\* ------------------------------------------- a search request and its pages
\* one task on for_github_crawlers: as the API publishes it (no page, no
\* priority) or as a publisher that sets page 1 or priority 0 does
InitPages ==
    /\ Quiet
    /\ restore = Off
    /\ names = Off
    /\ body = Off
    /\ mq \in {WorkerWaiting(<<Task(g, pr)>>) : g \in 0..1, pr \in {NoPriority, 0}}

NextPages ==
    \/ TaskReceive
    \/ PublishItems
    \/ PublishFollowUp
    \/ TaskAck

SpecPages == InitPages /\ [][NextPages]_vars

\* ------------------------------------------------------------------ claims
MarkPcs == {"sadd", "set", "expire"}
Ended(w) == pc[w] = "done"
Requeued(w) == result[w] = [kind |-> "returned", value |-> "re-queued"]

\* occurrences of repo r in the analyzer queue
InQueue(q, r) == Cardinality({i \in 1..Len(q) : q[i] = r})

\* jobs for repo r that wait for admission: queued, delayed, or running and
\* not yet past the increment
Pending(r) ==
    InQueue(queue, r) + delayed[r]
    + Cardinality({w \in Workers :
                     job[w] = r /\ pc[w] \in {"exists", "init", "get", "requeue", "incr"}})

\* C1: the pipeline counter never exceeds GLOBAL_MAX_CONCURRENT_PIPELINES,
\* however the workers' read, compare and increment steps interleave.
C1_AdmissionCap == GetInt(counter) <= GLOBAL_MAX_CONCURRENT_PIPELINES

\* C2: a job that has ended decremented the counter exactly once if it
\* incremented it (after clone failure, after an exception, after success),
\* and a job denied admission neither incremented nor decremented it.
C2_SemaphoreConservation ==
    \A w \in Workers :
        /\ incs[w] <= 1
        /\ decs[w] <= incs[w]
        /\ Ended(w) =>
            /\ decs[w] = incs[w]
            /\ incs[w] = IF Requeued(w) THEN 0 ELSE 1

\* C2 witness: a job that ended after an exception, one increment and one
\* decrement behind it, beside a job that ended denied with neither.
C2_Witness ==
    \E w, v \in Workers :
        /\ Ended(w) /\ exc[w] /\ incs[w] = 1 /\ decs[w] = 1
        /\ Ended(v) /\ Requeued(v) /\ incs[v] = 0 /\ decs[v] = 0

\* C3: the pipeline counter is never negative.
C3_CounterNonNegative == GetInt(counter) >= 0

\* C4: a job denied admission puts exactly one job for its repo back (delayed,
\* or at once when delayed enqueue is missing) and returns normally, with no
\* clone, no scan and no change to the counter; the number of jobs waiting for
\* a repo changes only by an admission taking one of them.
C4_RequeueOnDenial ==
    [][/\ \A w \in Workers :
            (pc[w] = "requeue" /\ pc'[w] # "requeue") =>
                /\ pc'[w] = "done"
                /\ Requeued(w)'
                /\ InQueue(queue', job[w]) + delayed'[job[w]]
                     = InQueue(queue, job[w]) + delayed[job[w]] + 1
                /\ \A r \in Repos \ {job[w]} :
                     InQueue(queue', r) + delayed'[r] = InQueue(queue, r) + delayed[r]
                /\ attempt'[w] = 0 /\ ~localPath'[w] /\ ~scanned'[w]
                /\ incs'[w] = 0 /\ decs'[w] = 0
                /\ counter' = counter /\ dir' = dir
       /\ \A r \in Repos :
            \/ Pending(r)' = Pending(r)
            \/ /\ Pending(r)' = Pending(r) - 1
               /\ \E w \in Workers : job[w] = r /\ pc[w] = "incr" /\ pc'[w] = "clone"
      ]_vars

\* C4 witness: a denied job has ended and a job for its repo is waiting.
C4_Witness ==
    \E w \in Workers :
        /\ Ended(w) /\ Requeued(w)
        /\ InQueue(queue, job[w]) + delayed[job[w]] >= 1

\* C5: clone_repo_with_retries makes at most MAX_CLONE_ATTEMPTS attempts; once
\* an attempt succeeded no further attempt is made; it gives up only after
\* MAX_CLONE_ATTEMPTS failed attempts, and then the job ends without scanning.
C5_CloneBounded ==
    \A w \in Workers :
        /\ attempt[w] <= MAX_CLONE_ATTEMPTS
        /\ pc[w] = "clone" => ~localPath[w] /\ attempt[w] >= 1
        /\ pc[w] = "scan" => localPath[w]
        /\ pend[w] = "clone failed" =>
            /\ attempt[w] = MAX_CLONE_ATTEMPTS
            /\ ~localPath[w] /\ ~scanned[w] /\ ~didOk[w]
            /\ pc[w] \in {"cleanup", "decr", "done"}

\* C5 witness: a job ended after its last clone attempt failed.
C5_Witness ==
    \E w \in Workers :
        Ended(w) /\ pend[w] = "clone failed" /\ attempt[w] = MAX_CLONE_ATTEMPTS

\* C6: the processed set and the processed key of a repo are written only by
\* a job for that repo that ran Scanning to its end; a job that re-queued
\* itself, failed to clone or raised an exception never reaches the marking.
C6_MarkedOnlyAfterScanning ==
    [][/\ (procSet' # procSet \/ \E r \in Repos : procKey'[r] \notin {procKey[r], "absent"}) =>
            \E w \in Workers :
                /\ pc[w] \in MarkPcs /\ pc'[w] # pc[w]
                /\ scanned[w] /\ ~exc[w] /\ pend[w] = "none"
                /\ procSet' \subseteq procSet \cup {job[w]}
                /\ \A r \in Repos \ {job[w]} : procKey'[r] = procKey[r]
       /\ \A w \in Workers : pc'[w] \in MarkPcs => scanned'[w]
      ]_vars

\* C6 witness: a job that raised an exception ended and left its repo
\* unmarked.
C6_Witness ==
    \E v \in Workers :
        /\ Ended(v) /\ exc[v]
        /\ job[v] \notin procSet /\ procKey[job[v]] = "absent"

\* C7: when a job that acquired a slot ends, its clone directory is gone
\* (no other worker being at work on the same repo).
C7_CloneDirRemoved ==
    \A w \in Workers :
        (Ended(w) /\ incs[w] = 1 /\ \A v \in Workers \ {w} : job[v] # job[w])
            => ~dir[job[w]]

\* C8: a job in whose body an exception was raised ends with the exception
\* handed to the broker, not with a normal return.
C8_ExceptionPropagates ==
    \A w \in Workers : (Ended(w) /\ exc[w]) => result[w].kind = "raised"

\* C9: a job whose clone attempts all failed returns the clone-failed message.
C9_CloneFailedReturned ==
    \A w \in Workers :
        (Ended(w) /\ pend[w] = "clone failed") => result[w].value = "clone failed"

\* C10: marking a repo that was marked before leaves its cache entry (set
\* membership, presence of the processed key) as the first marking left it.
C10_MarkIdempotent ==
    [][\A w \in Workers :
          (pc[w] \in MarkPcs /\ pc'[w] = "done" /\ firstEntry[job[w]] # NoEntry) =>
              CacheEntry(procSet', procKey', job[w]) = firstEntry[job[w]]
      ]_vars

\* C10 witness: two jobs for the same repo have both completed the marking.
C10_Witness ==
    \E w, v \in Workers :
        /\ w # v /\ job[w] = job[v]
        /\ Ended(w) /\ scanned[w] /\ Ended(v) /\ scanned[v]
        /\ CacheEntry(procSet, procKey, job[w]) = <<TRUE, TRUE>>

\* the crawler is past the cache check with a listed repo in hand
CrawlHolds(r) == crawl.pc \in {"view", "filter", "enqueue"} /\ crawl.cur = r

\* ways the discovery filter drops a repo
FilterDrops == {"old", "large", "invalid"}

C12_SkipOnProcessedKey ==
    [][\A r \in Repos :
        /\ (crawl.pc = "check" /\ Head(crawl.todo) = r /\ crawl' # crawl) =>
            IF IsProcessed(procKey, r)
            THEN crawl'.last = Decision(r, "cached") /\ ~CrawlHolds(r)' /\ queue' = queue
            ELSE CrawlHolds(r)'
        /\ (CrawlHolds(r)' /\ ~CrawlHolds(r)) =>
            crawl.pc = "check" /\ ~IsProcessed(procKey, r)
        /\ (crawl' # crawl /\ InQueue(queue', r) # InQueue(queue, r)) =>
            crawl.pc = "enqueue" /\ crawl.cur = r
        /\ (CrawlHolds(r) /\ ~CrawlHolds(r)') =>
            \/ InQueue(queue', r) = InQueue(queue, r) + 1 /\ crawl'.last.how \notin FilterDrops
            \/ crawl'.last.how \in FilterDrops /\ queue' = queue
      ]_vars

\* C12 witness: the job has just skipped a repo whose key exists, after it
\* enqueued another listed repo that is in the audit set with its key expired.
C12_Witness ==
    \E r, o \in Repos :
        /\ r # o
        /\ crawl.last = Decision(r, "cached") /\ IsProcessed(procKey, r)
        /\ o \in procSet /\ ~IsProcessed(procKey, o)
        /\ InQueue(queue, o) >= 1

\* pushedAt lies more than MAX_REPO_AGE_DAYS days back
OlderThanMaxAge(m) == m.pushed = "iso" /\ m.age > 2 * MAX_REPO_AGE_DAYS

\* pushedAt lies MAX_REPO_AGE_DAYS + 1 whole days back, or more
WholeDaysOverMaxAge(m) == m.pushed = "iso" /\ m.age >= 2 * (MAX_REPO_AGE_DAYS + 1)

ExceedsMaxSize(m) == m.disk > MAX_REPO_SIZE_KB

\* the metadata was fetched and is a JSON object
Parsed(m) == m.kind = "json"

C14_FailOpen ==
    [][/\ (crawl.pc = "filter" /\ crawl' # crawl /\ ~Fetched(crawl.meta)) =>
            /\ crawl'.pc = "enqueue" /\ crawl'.cur = crawl.cur /\ crawl'.todo = crawl.todo
            /\ queue' = queue
       /\ (crawl.pc = "enqueue" /\ crawl' # crawl /\ ~Fetched(crawl.meta)) =>
            /\ queue' = Append(queue, crawl.cur)
            /\ crawl'.last = Decision(crawl.cur, "failopen")
            /\ crawl'.todo = Tail(crawl.todo) /\ ~CrawlHolds(crawl.cur)'
      ]_vars

\* C14 witness: the job has enqueued a repo whose metadata fetch failed.
C14_Witness ==
    \E r \in Repos :
        /\ crawl.last = Decision(r, "failopen")
        /\ InQueue(queue, r) = 1

\* the submitter leaves its wait loop for the enqueue
SubAdmitted == sub.pc # "enqueue" /\ sub'.pc = "enqueue"

\* the submitter ends a pass of its wait loop
SubDecides == sub.pc = "countA" /\ sub' # sub

\* C15: in the org-list and search modes the submitter puts a job on the
\* crawler queue only from the enqueue that directly follows a pass of its
\* wait loop that read active < GLOBAL_MAX + 5 and crawler depth + analyzer
\* depth < BUFFER * 2; a pass that read anything else sleeps and starts the
\* next pass with nothing enqueued and nothing taken off its list.
C15_DiscoveryAdmission ==
    [][sub.mode \in DiscoveryModes =>
        /\ cqueue' # cqueue =>
            /\ sub.pc = "enqueue"
            /\ Len(cqueue') = Len(cqueue) + 1
            /\ sub.active < GLOBAL_MAX_CONCURRENT_PIPELINES + SUBMITTER_HEADROOM
        /\ SubAdmitted =>
            /\ sub.pc = "countA"
            /\ sub.active < GLOBAL_MAX_CONCURRENT_PIPELINES + SUBMITTER_HEADROOM
            /\ sub.lenC + Len(queue) < SUBMITTER_TARGET_ANALYZER_Q_BUFFER * 2
            /\ sub'.active = sub.active
        /\ (SubDecides /\ ~SubAdmitted) =>
            /\ \/ sub.active >= GLOBAL_MAX_CONCURRENT_PIPELINES + SUBMITTER_HEADROOM
               \/ sub.lenC + Len(queue) >= SUBMITTER_TARGET_ANALYZER_Q_BUFFER * 2
            /\ sub'.pc = "exists" /\ sub'.slept
            /\ sub'.orgs = sub.orgs /\ sub'.sent = sub.sent
            /\ cqueue' = cqueue /\ queue' = queue
      ]_vars

\* C15 witness: the org-list submitter has sent one batch, slept in the wait
\* loop for the next one and has now been admitted.
C15_Witness ==
    /\ sub.mode = "orgs" /\ sub.sent = 1
    /\ sub.pc = "enqueue" /\ sub.slept

\* C16: in direct mode the submitter puts a job on the analyzer queue only
\* from the enqueue that directly follows a pass of its wait loop that read
\* active < GLOBAL_MAX, or active = GLOBAL_MAX and an analyzer depth below
\* BUFFER / 2; it never enqueues on a reading above GLOBAL_MAX, whatever the
\* depth; any other pass sleeps and starts the next pass with nothing enqueued.
C16_DirectAdmission ==
    [][sub.mode = "direct" =>
        /\ (sub' # sub /\ queue' # queue) =>
            /\ sub.pc = "enqueue"
            /\ queue' = Append(queue, Head(sub.repos))
            /\ sub.active <= GLOBAL_MAX_CONCURRENT_PIPELINES
        /\ SubAdmitted =>
            /\ sub.pc = "countA"
            /\ \/ sub.active < GLOBAL_MAX_CONCURRENT_PIPELINES
               \/ /\ sub.active = GLOBAL_MAX_CONCURRENT_PIPELINES
                  /\ 2 * Len(queue) < SUBMITTER_TARGET_ANALYZER_Q_BUFFER
            /\ sub'.active = sub.active
        /\ (SubDecides /\ sub.active > GLOBAL_MAX_CONCURRENT_PIPELINES) => ~SubAdmitted
        /\ (SubDecides /\ ~SubAdmitted) =>
            /\ sub'.pc = "exists" /\ sub'.slept
            /\ sub'.repos = sub.repos /\ sub'.sent = sub.sent
            /\ cqueue' = cqueue /\ queue' = queue
      ]_vars

\* C16 witness: the direct submitter has sent one repo, slept in the wait loop
\* for the next one and has been admitted on a reading of exactly GLOBAL_MAX.
C16_Witness ==
    /\ sub.mode = "direct" /\ sub.sent = 1
    /\ sub.pc = "enqueue" /\ sub.slept
    /\ sub.active = GLOBAL_MAX_CONCURRENT_PIPELINES

\* restored files the run has written for the deletion of path f as it was in
\* parent p
WritesOf(p, f) ==
    {i \in 1..Len(restore.writes) :
        restore.writes[i].parent = p /\ restore.writes[i].path = f}

\* C17: within one run of the deleted-file recovery at most one restored file
\* is written for each pair of parent commit and original path.
C17_OneWritePerVersion ==
    restore.pc # "off" =>
        \A p \in 1..NumParents, f \in 1..NumPaths : Cardinality(WritesOf(p, f)) <= 1

\* C17 witness: the run is over, it met the same deletion (same parent, same
\* path) under two different commits, and wrote one file for it.
C17_Witness ==
    /\ restore.pc = "done"
    /\ \E j, k \in 1..Len(restore.lines) :
        /\ j < k
        /\ restore.lines[j].status = "D" /\ restore.lines[k].status = "D"
        /\ restore.lines[j].commit # restore.lines[k].commit
        /\ restore.lines[j].parent = restore.lines[k].parent
        /\ restore.lines[j].path = restore.lines[k].path
        /\ Cardinality(WritesOf(restore.lines[j].parent, restore.lines[j].path)) = 1

\* the characters [A-Za-z0-9_]
AsciiSafe == {"a", "7", "_"}

OnlyAsciiSafe(seg) == \A i \in 1..Len(seg) : seg[i] \in AsciiSafe

\* the path starts at the base and no later segment is a way out of it
InsideBase(path) ==
    /\ Len(path) >= 1 /\ path[1] = "GIT_CLONE_PATH"
    /\ \A k \in 2..Len(path) :
        /\ path[k] \notin {<<>>, <<".">>, <<".", ".">>}
        /\ \A i \in 1..Len(path[k]) : path[k][i] \notin {"/", "NUL"}

\* C18: for every (org, repo) the safe names hold only characters of
\* [A-Za-z0-9_], and the clone path stays inside the clone root.
C18_SafePathSegments ==
    names.pc = "out" =>
        /\ OnlyAsciiSafe(names.safeOrg)
        /\ OnlyAsciiSafe(names.safeRepo)
        /\ InsideBase(names.path)

\* the job of worker w is in Cloning or Scanning
AtWork(w) == pc[w] \in {"clone", "scan"}

\* C19: no two jobs that are in Cloning or Scanning at the same time use the
\* same clone directory.
C19_ExclusiveCloneDir ==
    \A w, v \in Workers : (w # v /\ AtWork(w) /\ AtWork(v)) => job[w] # job[v]

\* C20: with more jobs for distinct repos enqueued together than there are
\* slots, workers and delayed delivery scheduled fairly and clones and scans
\* succeeding, every repo is eventually marked processed and no job is left
\* waiting: none is re-queued forever or lost.
C20_AllEventuallyProcessed ==
    <>[](\A r \in Repos :
            /\ firstEntry[r] # NoEntry
            /\ r \in procSet /\ IsProcessed(procKey, r)
            /\ Pending(r) = 0)

\* C20 witness: a job was denied and has put itself back, its copy waits, and
\* every other repo is marked by now.
C20_Witness ==
    \E v \in Workers :
        /\ Ended(v) /\ Requeued(v) /\ Pending(job[v]) >= 1
        /\ firstEntry[job[v]] = NoEntry
        /\ \A r \in Repos \ {job[v]} : firstEntry[r] # NoEntry

\* Scanning of the job is over: its end was reached, or an exception left it
ScanningOver == body.pc \in {"end", "raised"}

\* C21: when Scanning is over, all three sub-pipelines (full-history scan,
\* deleted-file recovery, dangling-blob extraction) were executed and the end
\* of Scanning was reached, whatever failed in any of them.
C21_SiblingsStillRun ==
    ScanningOver => (body.ran = SourceTypes /\ body.pc = "end")

\* clone_repo_with_retries has given up: its last attempt failed
GaveUp == body.pc = "gaveup"

\* C22 (as stated): when every clone attempt fails, three retries occur,
\* preceded by waits of at least 60, 120 and 240 seconds (once, twice and four
\* times CLONE_RETRY_DELAY_SECONDS).
C22_ThreeRetriesAsStated ==
    GaveUp =>
        /\ Len(body.waits) = 3
        /\ body.waits[1] >= CLONE_RETRY_DELAY_SECONDS
        /\ body.waits[2] >= 2 * CLONE_RETRY_DELAY_SECONDS
        /\ body.waits[3] >= 4 * CLONE_RETRY_DELAY_SECONDS

\* C22 (amended): a wait comes between two attempts only: before attempt k + 1
\* the job has waited k times, the k-th wait being CLONE_RETRY_DELAY_SECONDS *
\* 2^(k-1) seconds plus a jitter of at most a quarter of
\* CLONE_RETRY_DELAY_SECONDS; when every attempt fails, MAX_CLONE_ATTEMPTS
\* attempts were made and MAX_CLONE_ATTEMPTS - 1 waits, so with 3 attempts and
\* 60 s two retries, after at least 60 and at least 120 seconds.
C22_ThreeAttemptsTwoWaits ==
    body.pc \in {"clone", "gaveup"} =>
        /\ body.attempt \in 1..MAX_CLONE_ATTEMPTS
        /\ Len(body.waits) = body.attempt - 1
        /\ \A k \in 1..Len(body.waits) :
            /\ body.waits[k] >= CLONE_RETRY_DELAY_SECONDS * (2 ^ (k - 1))
            /\ 4 * body.waits[k] <= 4 * CLONE_RETRY_DELAY_SECONDS * (2 ^ (k - 1))
                                      + CLONE_RETRY_DELAY_SECONDS
        /\ GaveUp =>
            /\ body.attempt = MAX_CLONE_ATTEMPTS
            /\ Len(body.waits) = MAX_CLONE_ATTEMPTS - 1

\* C22 witness: every attempt has failed; the job waited once without jitter
\* and once with the largest jitter.
C22_Witness ==
    /\ GaveUp
    /\ body.waits = <<CLONE_RETRY_DELAY_SECONDS,
                      2 * CLONE_RETRY_DELAY_SECONDS + CLONE_RETRY_DELAY_SECONDS \div 4>>

\* restored files in the output directory that hold the bytes of parent:path
RestoredCopies(p, f) == {o \in restore.files : o.content = Blob(p, f)}

\* git show could read the blob of this version and the write did not fail
BlobRead(p, f) ==
    \E o \in {"written", "empty"} : <<VersionKey(0, p, f), o>> \in restore.shown

\* C23: when the deleted-file recovery has returned, for every diff entry
\* with status D whose blob parent:path could be read, the output directory
\* holds exactly one restored file with the bytes of that blob.
C23_RestoredBytesOfParent ==
    restore.pc = "done" =>
        \A k \in 1..Len(restore.lines) :
            LET l == restore.lines[k] IN
            (l.status = "D" /\ BlobRead(l.parent, l.path)) =>
                Cardinality(RestoredCopies(l.parent, l.path)) = 1

\* failures of one commit's processing: the parent lookup, the diff, the blob
\* read (failing, or giving nothing) and the write of the output file
CommitFailures == {"noparent", "nodiff", "unreadable", "empty", "writefailed"}

C24_HistoryScanInGitMode ==
    body.last.type = "local_repo" =>
        /\ body.last.mode = "git"
        /\ body.depth > 0 => body.last.maxDepth = body.depth

\* C25: after a scanner invocation that exited with code 0 or 1 the findings
\* file of its source type exists, and holds an empty JSON array when the
\* scanner printed no findings; the regex scanner, where it ran beside it and
\* returned, left its findings file too.
C25_FindingsFileLeft ==
    (body.last.kind = "exit" /\ body.last.rc \in {0, 1}) =>
        /\ body.found[body.last.type] # "absent"
        /\ ~body.last.out => body.found[body.last.type] = "empty_array"
        /\ (body.custom /\ body.last.type # "local_repo" /\ body.pc # "raised") =>
              body.customFound[body.last.type] # "absent"

\* the jobs that have incremented the counter and not yet decremented it
InFlight == {w \in Workers : incs[w] > decs[w]}

\* C26: with no worker crashing, the counter equals the number of jobs that
\* have incremented it and not yet decremented it, in every reachable state;
\* so it is 0 whenever no analysis is in flight.
C26_CounterCountsInFlight == GetInt(counter) = Cardinality(InFlight)

\* C27: the counter never exceeds GLOBAL_MAX_CONCURRENT_PIPELINES by more
\* than the number of analyzer workers, whatever the interleaving of their
\* reads, comparisons and increments: it never exceeds the number of jobs
\* that hold a slot, of which each worker runs at most one.
C27_OvershootBounded ==
    /\ GetInt(counter) <= GLOBAL_MAX_CONCURRENT_PIPELINES + NumWorkers
    /\ GetInt(counter) <= Cardinality(InFlight)
    /\ Cardinality(InFlight) <= NumWorkers

\* C27 witness: every worker raced past the comparison and incremented; the
\* counter is above the cap.
C27_Witness ==
    /\ GetInt(counter) > GLOBAL_MAX_CONCURRENT_PIPELINES
    /\ GetInt(counter) = NumWorkers
    /\ InFlight = Workers

\* by how much the counter exceeds the number of analyses in flight
Excess == GetInt(counter) - Cardinality(InFlight)

\* C28: the kill of a job between its increment and its decrement leaves the
\* counter one higher above the number of analyses in flight than it was, and
\* from then on no step of an analyzer or of the submitter takes that excess
\* down again.
C28_CounterStaysHigh ==
    [][/\ crashed' > crashed => Excess' = Excess + 1
       /\ (crashed > 0 /\ crashed' = crashed) => Excess' >= Excess
      ]_vars

\* the repos a job of which was re-enqueued
Requeues == {r \in Repos : requeued[r]}

\* every repo has been marked processed
AllMarked == \A r \in Repos : firstEntry[r] # NoEntry

\* C30 (as stated): with more jobs enqueued together than there are slots,
\* by the time all are processed at least NumJobs - GLOBAL_MAX of them (3 of
\* 5 with a cap of 2) were re-enqueued, under every schedule.
C30_AtLeastTheSurplusRequeued ==
    AllMarked => Cardinality(Requeues) >= NumJobs - GLOBAL_MAX_CONCURRENT_PIPELINES

\* C30 (amended): at most NumJobs - GLOBAL_MAX of the jobs (3 of 5 with a cap
\* of 2) are ever re-enqueued, since the first GLOBAL_MAX jobs to increment
\* the counter read it below the cap, and none before the counter key exists;
\* how many are depends on the schedule, and none need be.
C30_AtMostTheSurplusRequeued ==
    /\ Cardinality(Requeues) <= NumJobs - GLOBAL_MAX_CONCURRENT_PIPELINES
    /\ \A r \in Requeues : KeyExists(counter)

\* C30 witness: every repo is marked, and exactly NumJobs - GLOBAL_MAX of the
\* jobs were re-enqueued on the way.
C30_Witness ==
    /\ AllMarked
    /\ Cardinality(Requeues) = NumJobs - GLOBAL_MAX_CONCURRENT_PIPELINES

\* lines of the search output that name repo r
LinesNaming(r) == {i \in 1..Len(crawl.out) : crawl.out[i] = NameLine(r)}

\* C31: when a search job returns, the analyzer queue holds one job for each
\* line of the search output that has a '/', whatever the processed cache says
\* about the repo and with no metadata fetched; a search command that failed
\* (no result, non-zero exit, empty output) leaves the queue as it was and the
\* job returns the failure message
C31_SearchEnqueuesEachName ==
    crawl.pc = "return" =>
        /\ \A r \in Repos : InQueue(queue, r) = Cardinality(LinesNaming(r))
        /\ Len(queue) = Cardinality({i \in 1..Len(crawl.out) : crawl.out[i].slash})
        /\ crawl.out = <<>> => crawl.ret = "GitHub search failed"
        /\ crawl.out # <<>> => crawl.ret = "GitHub search processed"

\* a search whose output has a line without '/' and names a repo that has a
\* processed key; the repo is on the analyzer queue when the job returns
C31_Witness ==
    /\ crawl.pc = "return"
    /\ \E i \in 1..Len(crawl.out) : ~crawl.out[i].slash
    /\ \E r \in Repos : LinesNaming(r) # {} /\ procKey[r] # "absent" /\ InQueue(queue, r) = 1

\* the batches of a sequence of batches, joined in order
RECURSIVE Joined(_)
Joined(bs) == IF bs = <<>> THEN <<>> ELSE Head(bs) \o Joined(Tail(bs))

\* the least number of batches of at most SUBMITTER_BATCH_SIZE that hold n names
Ceiling(n) == (n + SUBMITTER_BATCH_SIZE - 1) \div SUBMITTER_BATCH_SIZE

\* C32: the org-list submitter sends the accepted org names in input order in
\* consecutive batches of at most SUBMITTER_BATCH_SIZE, one discovery job on
\* the crawler queue per batch: the batches sent so far, joined, are the head
\* of the list, and when the function ends they are the whole list, each name
\* once, in ceil(n / SUBMITTER_BATCH_SIZE) jobs
C32_OrgsPartitionedInBatches ==
    (sub.pc # "off" /\ sub.mode = "orgs") =>
        /\ Joined(sub.batches) = SubSeq(AllOrganizations(sub.total), 1, sub.total - sub.orgs)
        /\ \A k \in 1..Len(sub.batches) :
            /\ Len(sub.batches[k]) \in 1..SUBMITTER_BATCH_SIZE
            /\ k < Len(sub.batches) => Len(sub.batches[k]) = SUBMITTER_BATCH_SIZE
        /\ Len(cqueue) = Len(sub.batches)
        /\ \A k \in 1..Len(cqueue) : cqueue[k] = OrgListJob(Len(sub.batches[k]))
        /\ sub.pc = "done" =>
            /\ Joined(sub.batches) = AllOrganizations(sub.total)
            /\ Len(sub.batches) = Ceiling(sub.total)

\* a submission of more names than one batch holds, not a multiple of the
\* batch size, has ended: a full batch and a short one were sent
C32_Witness ==
    /\ sub.pc = "done"
    /\ sub.mode = "orgs"
    /\ sub.total > SUBMITTER_BATCH_SIZE
    /\ sub.total % SUBMITTER_BATCH_SIZE # 0
    /\ Len(sub.batches) = 2
    /\ Len(sub.batches[2]) < SUBMITTER_BATCH_SIZE

\* C33: once the counter key exists, the only steps that change the counter
\* are a job's increment and a job's decrement: the lazy initialization of a
\* job or of a submitter observation finds the key and leaves it alone
C33_InitLeavesCounterAlone ==
    [][(KeyExists(counter) /\ counter' # counter) => (incs' # incs \/ decs' # decs)]_vars

\* C34: a job that is marking its repo, or has marked it, has made its
\* decrement: the processed set and the processed key are written only by a
\* job whose one increment is already matched by its one decrement
C34_ReleasedBeforeMarked ==
    /\ \A w \in Workers :
        (pc[w] \in MarkPcs \/ (pc[w] = "done" /\ didOk[w])) => (incs[w] = 1 /\ decs[w] = 1)
    /\ \A r \in Repos :
        (r \in procSet \/ procKey[r] # "absent") =>
            \/ firstEntry[r] # NoEntry
            \/ \E w \in Workers : job[w] = r /\ pc[w] \in {"set", "expire"} /\ decs[w] = 1

\* a job has written its repo's processed key and has not returned yet; its
\* slot is free again
C34_Witness ==
    \E w \in Workers :
        /\ pc[w] = "expire"
        /\ procKey[job[w]] = "persistent"
        /\ decs[w] = 1
        /\ GetInt(counter) = 0

\* C35: with a positive cache TTL, a processed key that has no expiry is in
\* the hands of the job that has just written it and is about to give it one:
\* no processed key is left in the cache without a TTL
C35_ProcessedKeysExpire ==
    PROCESSED_REPOS_CACHE_TTL_SECONDS > 0 =>
        \A r \in Repos :
            procKey[r] = "persistent" => \E w \in Workers : job[w] = r /\ pc[w] = "expire"

\* the counter is at or above the cap and no job holds a slot: every slot it
\* counts was leaked by a killed worker
Stuck ==
    /\ KeyExists(counter)
    /\ GetInt(counter) >= GLOBAL_MAX_CONCURRENT_PIPELINES
    /\ InFlight = {}

\* C36: a counter stuck at or above the cap with no analysis in flight stays
\* there: no step of a worker or of the submitter brings it back below the
\* cap, so no job is admitted until the counter is reset from outside
C36_StuckStaysStuck ==
    [][Stuck => GetInt(counter') >= GLOBAL_MAX_CONCURRENT_PIPELINES]_vars

\* C37: within one run of the deleted-file recovery, two different deletion
\* records that were written went to two different output files, so the output
\* directory holds as many files as records were written
C37_OutputNamesInjective ==
    restore.pc # "off" =>
        /\ \A i, j \in 1..Len(restore.writes) :
            i # j => OutputName(restore.writes[i].commit, restore.writes[i].parent,
                                restore.writes[i].path)
                     # OutputName(restore.writes[j].commit, restore.writes[j].parent,
                                  restore.writes[j].path)
        /\ Cardinality(restore.files) = Len(restore.writes)

\* metadata that was fetched but cannot be parsed or evaluated: output that is
\* not JSON, or a pushedAt that is not a date
Unevaluable(m) == Fetched(m) /\ (m.kind = "unparsable" \/ m.pushed = "malformed")

\* C38: with the filters enabled, a listed, unprocessed repo whose metadata
\* was fetched but cannot be parsed or evaluated goes on to the enqueue, as a
\* repo whose fetch failed does
C38_UnevaluableStillEnqueued ==
    [][(crawl.pc = "filter" /\ crawl' # crawl /\ Unevaluable(crawl.meta)) =>
            (crawl'.pc = "enqueue" /\ crawl'.cur = crawl.cur)
      ]_vars

\* the number of pages a first-page task should fan out to
LastPage(total_count) ==
    IF TotalPages(total_count) < MAX_MORE_PAGES THEN TotalPages(total_count) ELSE MAX_MORE_PAGES

\* C39: when the worker has handled a first-page task (priority 0, page 1)
\* whose result spans T pages, it has published one follow-up task for each
\* page from 2 to min(T, MAX_MORE_PAGES) and none for page 1; a task of
\* priority 1 publishes no follow-up
C39_FollowUpsForLaterPages ==
    (mq.pc = "ack") =>
        IF mq.cur.priority = 0 /\ mq.page = 1
        THEN /\ \A g \in 2..LastPage(mq.total_count) :
                    Cardinality({k \in 1..Len(mq.follow) : mq.follow[k] = g}) = 1
             /\ \A k \in 1..Len(mq.follow) : mq.follow[k] \in 2..LastPage(mq.total_count)
        ELSE mq.cur.priority = 1 => mq.follow = <<>>

====
